---- MODULE Spec2Model ----
(***************************************************************************)
(* Verification model of the book-dataset ETL pipeline:                    *)
(*   scripts/pipeline_runner.py      PipelineRunner                         *)
(*   scripts/cleaning.py             DataCleaner                            *)
(*   scripts/transformation.py       DataTransformer                        *)
(*   scripts/utils.py                IdGenerator, NumericProcessor          *)
(*   scripts/feature_engineering.py  FeatureEngineer                        *)
(* Each object is one variable holding a record of the object's fields and *)
(* the position of its run() method.  Every component has its own          *)
(* specification (SpecRunner, SpecCleaner, ...) whose Init draws the input *)
(* table from a bounded set.                                               *)
(***************************************************************************)
EXTENDS Integers, Sequences, FiniteSets, TLC

VARIABLES runner, cleaner, transformer, fe, eda, api, scraper

vars == <<runner, cleaner, transformer, fe, eda, api, scraper>>

\* a cell of a table is <<>> (null) or <<v>> (the value v)
Null == <<>>

IsNull(cell) == cell = <<>>

Val(cell) == cell[1]

\* Python's None in a field that otherwise holds a string
None == "None"

\* an object that has not been constructed in the specification at hand
Idle == [pc |-> "idle"]

(***************************************************************************)
(* Small helpers over sequences                                            *)
(***************************************************************************)
Range(s) == {s[i] : i \in 1..Len(s)}

Contains(s, x) == \E i \in 1..Len(s) : s[i] = x

Min2(a, b) == IF a <= b THEN a ELSE b

(***************************************************************************)
(* Tables (polars DataFrame): columns in order, a dtype per column, rows   *)
(* in order; a row maps each column name to a cell                         *)
(***************************************************************************)
DataFrame(columns, dtypes, rows) == [columns |-> columns, dtypes |-> dtypes, rows |-> rows]

Height(df) == Len(df.rows)

HasColumn(df, col) == Contains(df.columns, col)

\* the cells of one column, in row order
Column(df, col) == [i \in 1..Len(df.rows) |-> df.rows[i][col]]

NonNull(cells) == SelectSeq(cells, LAMBDA c : ~IsNull(c))

\* Series.null_count()
NullCount(df, col) == Len(df.rows) - Len(NonNull(Column(df, col)))

\* DataFrame.drop(col)
DropColumn(df, col) ==
  LET keep == Range(df.columns) \ {col}
  IN DataFrame(SelectSeq(df.columns, LAMBDA c : c # col),
               [c \in keep |-> df.dtypes[c]],
               [i \in 1..Len(df.rows) |-> [c \in keep |-> df.rows[i][c]]])

\* DataFrame.select(cols): the named columns, in the order given
SelectColumns(df, cols) ==
  DataFrame(cols, [c \in Range(cols) |-> df.dtypes[c]],
            [i \in 1..Len(df.rows) |-> [c \in Range(cols) |-> df.rows[i][c]]])

\* the values of a sequence of integers in ascending order
RECURSIVE SortInts(_)
SortInts(s) ==
  IF s = <<>> THEN <<>>
  ELSE LET m == CHOOSE x \in Range(s) : \A y \in Range(s) : x <= y
           i == CHOOSE k \in 1..Len(s) : s[k] = m
       IN <<m>> \o SortInts([k \in 1..(Len(s) - 1) |-> IF k < i THEN s[k] ELSE s[k + 1]])

\* the non-null values of a numeric column, ascending
SortedValues(cells) == SortInts([i \in 1..Len(NonNull(cells)) |-> Val(NonNull(cells)[i])])

NUMERIC_DTYPES == {"Int64", "Float64"}

(***************************************************************************)
(* DataCleaner  (scripts/cleaning.py)                                      *)
(***************************************************************************)
BOOKS_REQUIRED_COLUMNS ==
  <<"title", "price", "rating", "availability", "category", "image",
    "product_page", "stock", "image_base64">>

\* NULL_THRESHOLD_BOOKS = 0.40, as a percentage
NULL_THRESHOLD_PCT == 40

UNKNOWN_FILL_VALUE == "unknown"

\* null_pct >= NULL_THRESHOLD, with null_pct = null_count / total_rows
AtOrAboveThreshold(null_count, total_rows) ==
  null_count * 100 >= NULL_THRESHOLD_PCT * total_rows

\* Series.median() of the non-null values (numeric cells of the model are
\* even numbers, which keeps the mean of the two middle values integral)
Median(cells) ==
  LET v == SortedValues(cells)
      n == Len(v)
  IN IF n % 2 = 1 THEN v[(n + 1) \div 2] ELSE (v[n \div 2] + v[n \div 2 + 1]) \div 2

\* with_columns(when(col.is_null()).then(<literal>).otherwise(col))
FillNullLiteral(df, col, value) ==
  [df EXCEPT !.rows = [i \in 1..Len(df.rows) |->
     [df.rows[i] EXCEPT ![col] = IF IsNull(@) THEN <<value>> ELSE @]]]

\* with_columns(when(col.is_null()).then(<column other>).otherwise(col))
FillNullFromColumn(df, col, other) ==
  [df EXCEPT !.rows = [i \in 1..Len(df.rows) |->
     [df.rows[i] EXCEPT ![col] = IF IsNull(@) THEN df.rows[i][other] ELSE @]]]

NullsReportRow(col, dtype, null_count, action, strategy) ==
  [column |-> col, type |-> dtype, nulls |-> null_count, action |-> action, strategy |-> strategy]

\* the loop of handle_nulls over the columns of self.df.  A numeric column
\* is filled with the literal median.  For every other dtype the fill value
\* is the Python string "unknown" handed to then(): polars parses a string
\* given to then() as a column name, so the expression reads column
\* "unknown" and raises ColumnNotFoundError when the table has none.
RECURSIVE handle_nulls_loop(_, _, _, _)
handle_nulls_loop(cols, df_processed, total_rows, report_rows) ==
  IF cols = <<>>
    THEN [df |-> df_processed, report |-> report_rows, error |-> None]
    ELSE
      LET col == Head(cols)
          null_count == NullCount(df_processed, col)
          dtype == df_processed.dtypes[col]
      IN IF null_count = 0
           THEN handle_nulls_loop(Tail(cols), df_processed, total_rows,
                  Append(report_rows, NullsReportRow(col, dtype, null_count, "none", "")))
         ELSE IF AtOrAboveThreshold(null_count, total_rows)
           THEN handle_nulls_loop(Tail(cols), DropColumn(df_processed, col), total_rows,
                  Append(report_rows, NullsReportRow(col, dtype, null_count, "column_dropped", "")))
         ELSE IF dtype \in NUMERIC_DTYPES
           THEN handle_nulls_loop(Tail(cols),
                  FillNullLiteral(df_processed, col, Median(Column(df_processed, col))), total_rows,
                  Append(report_rows, NullsReportRow(col, dtype, null_count, "imputed", "median")))
         ELSE IF HasColumn(df_processed, UNKNOWN_FILL_VALUE)
           THEN handle_nulls_loop(Tail(cols),
                  FillNullFromColumn(df_processed, col, UNKNOWN_FILL_VALUE), total_rows,
                  Append(report_rows, NullsReportRow(col, dtype, null_count, "imputed", "constant_unknown")))
         ELSE [df |-> df_processed, report |-> report_rows, error |-> "ColumnNotFoundError"]

\* the rows appended for required columns that the input does not have
MissingReportRows(missing) ==
  [i \in 1..Len(missing) |-> NullsReportRow(missing[i], "MISSING", -1, "missing_not_created", "none")]

\* a slip in the subset: every column of the table is a key
DedupSubset_AllColumns(df) == df.columns

\* subset = [c for c in REQUIRED_COLUMNS if c in self.df.columns]
DedupSubset(df) == SelectSeq(BOOKS_REQUIRED_COLUMNS, LAMBDA c : HasColumn(df, c))

RowKey(row, subset) == [k \in 1..Len(subset) |-> row[subset[k]]]

\* keep="first": the index of the first row of every group of equal keys
FirstOfGroups(df, subset) ==
  {i \in 1..Len(df.rows) :
     \A j \in 1..(i - 1) : RowKey(df.rows[j], subset) # RowKey(df.rows[i], subset)}

\* all orders in which the rows at the indices idx can come out
Orderings(idx) ==
  {p \in [1..Cardinality(idx) -> idx] : \A a, b \in 1..Cardinality(idx) : p[a] = p[b] => a = b}

\* DataFrame.unique(subset=subset, keep="first"): maintain_order is left at
\* its default False, so the kept rows come out in an order polars chooses
UniqueKeepFirst(df, subset) ==
  {[df EXCEPT !.rows = [k \in 1..Len(p) |-> df.rows[p[k]]]] : p \in Orderings(FirstOfGroups(df, subset))}

CleanerFail(c, where, error) == [c EXCEPT !.pc = "failed", !.failed_in = where, !.error = error]

\* ---- the raw files the cleaner is run on ----
\* largest number of rows of an input table
MaxRows == 3

\* the cells a column of the input tables can hold
CellDomain(col) ==
  CASE col = "title" -> {<<"a">>, Null}
    [] col = "price" -> {<<10>>, <<20>>, Null}
    [] OTHER -> {<<"x">>, <<"y">>}

DtypeOf(col) == IF col = "price" THEN "Float64" ELSE "Utf8"

RECURSIVE RowSet(_)
RowSet(cols) ==
  IF cols = <<>> THEN {<<>>}
  ELSE {(Head(cols) :> v) @@ r : v \in CellDomain(Head(cols)), r \in RowSet(Tail(cols))}

\* the tables with the given columns and n rows
TablesOver(cols, n) ==
  {DataFrame(cols, [c \in Range(cols) |-> DtypeOf(c)], rows) : rows \in [1..n -> RowSet(cols)]}

\* column lists of the raw file: "extra" is a column that is not required
RawColumnLists ==
  {<<"title", "price", "extra">>, <<"title", "extra">>, <<"price", "extra">>, <<"extra">>}

NewCleaner(raw_file) ==
  [pc |-> "read_raw", raw_file |-> raw_file, df |-> Null, missing_columns |-> <<>>,
   nulls_report |-> Null, duplicates_report |-> Null, cleaned_file |-> Null,
   failed_in |-> None, error |-> None]

\* the raw file is absent, or holds a table of 0..MaxRows rows
CleanerInit ==
  /\ \/ cleaner = NewCleaner([exists |-> FALSE, table |-> DataFrame(<<>>, <<>>, <<>>)])
     \/ \E cols \in RawColumnLists, n \in 0..MaxRows :
          \E t \in TablesOver(cols, n) : cleaner = NewCleaner([exists |-> TRUE, table |-> t])
  /\ runner = Idle
  /\ transformer = Idle
  /\ fe = Idle
  /\ eda = Idle
  /\ api = Idle
  /\ scraper = Idle

\* read_raw
ReadRaw ==
  /\ cleaner.pc = "read_raw"
  /\ cleaner' = IF ~cleaner.raw_file.exists
                  THEN CleanerFail(cleaner, "read_raw", "FileNotFoundError")
                  ELSE [cleaner EXCEPT !.df = <<cleaner.raw_file.table>>, !.pc = "validate_columns"]
  /\ UNCHANGED <<runner, transformer, fe, eda, api, scraper>>

\* validate_columns
ValidateColumns ==
  /\ cleaner.pc = "validate_columns"
  /\ cleaner' = IF IsNull(cleaner.df)
                  THEN CleanerFail(cleaner, "validate_columns", "ValueError")
                  ELSE [cleaner EXCEPT
                          !.missing_columns =
                             SelectSeq(BOOKS_REQUIRED_COLUMNS, LAMBDA c : ~HasColumn(cleaner.df[1], c)),
                          !.pc = "handle_nulls"]
  /\ UNCHANGED <<runner, transformer, fe, eda, api, scraper>>

\* handle_nulls
HandleNulls ==
  /\ cleaner.pc = "handle_nulls"
  /\ cleaner' =
       IF IsNull(cleaner.df)
         THEN CleanerFail(cleaner, "handle_nulls", "ValueError")
         ELSE LET df == cleaner.df[1]
                  r == handle_nulls_loop(df.columns, df, Height(df), <<>>)
              IN IF r.error # None
                   THEN CleanerFail(cleaner, "handle_nulls", r.error)
                   ELSE [cleaner EXCEPT
                           !.df = <<r.df>>,
                           !.nulls_report = <<r.report \o MissingReportRows(cleaner.missing_columns)>>,
                           !.pc = "remove_duplicates"]
  /\ UNCHANGED <<runner, transformer, fe, eda, api, scraper>>

\* remove_duplicates; unique() needs at least one key column and raises
\* ComputeError on an empty subset
RemoveDuplicates ==
  /\ cleaner.pc = "remove_duplicates"
  /\ IF IsNull(cleaner.df)
       THEN cleaner' = CleanerFail(cleaner, "remove_duplicates", "ValueError")
       ELSE LET df == cleaner.df[1]
                subset == DedupSubset(df)
            IN IF subset = <<>>
                 THEN cleaner' = CleanerFail(cleaner, "remove_duplicates", "ComputeError")
                 ELSE \E deduped \in UniqueKeepFirst(df, subset) :
                        cleaner' = [cleaner EXCEPT
                          !.df = <<deduped>>,
                          !.duplicates_report =
                             <<[rows_before |-> Height(df), rows_after |-> Height(deduped),
                                duplicates_removed |-> Height(df) - Height(deduped)]>>,
                          !.pc = "save_cleaned"]
  /\ UNCHANGED <<runner, transformer, fe, eda, api, scraper>>

\* save_cleaned
SaveCleaned ==
  /\ cleaner.pc = "save_cleaned"
  /\ cleaner' = IF IsNull(cleaner.df)
                  THEN CleanerFail(cleaner, "save_cleaned", "ValueError")
                  ELSE [cleaner EXCEPT !.cleaned_file = cleaner.df, !.pc = "done"]
  /\ UNCHANGED <<runner, transformer, fe, eda, api, scraper>>

CleanerNext ==
  \/ ReadRaw
  \/ ValidateColumns
  \/ HandleNulls
  \/ RemoveDuplicates
  \/ SaveCleaned

SpecCleaner == CleanerInit /\ [][CleanerNext]_vars

(***************************************************************************)
(* IdGenerator (scripts/utils.py), DataTransformer (scripts/transformation.py) *)
(***************************************************************************)
ID_COLUMN_NAME == "id"

Injective(f) == \A a, b \in DOMAIN f : f[a] = f[b] => a = b

\* a slip in the sampling: drawing with replacement (random.choices)
random_sample_WithReplacement(population, k) == [1..k -> population]

\* random.sample(population, k): k draws without replacement, in any order
random_sample(population, k) == {s \in [1..k -> population] : Injective(s)}

\* a slip in the capacity: high - low, without the + 1
IdCapacity_Exclusive(digits) == ((10 ^ digits) - 1) - 10 ^ (digits - 1)

\* capacity = high - low + 1, with low = 10^(digits-1), high = 10^digits - 1
IdCapacity(digits) == ((10 ^ digits) - 1) - 10 ^ (digits - 1) + 1

\* IdGenerator.generate_unique_ids(count, digits): the outcomes of one call
generate_unique_ids(count, digits) ==
  LET low == 10 ^ (digits - 1)
      high == (10 ^ digits) - 1
      capacity == IdCapacity(digits)
  IN IF count > capacity
       THEN {[error |-> "ValueError", ids |-> <<>>]}
       ELSE {[error |-> None, ids |-> s] : s \in random_sample(low..high, count)}

\* with_columns(pl.Series(name, values)): a new last column
AppendColumn(df, name, dtype, values) ==
  DataFrame(Append(df.columns, name),
            (name :> dtype) @@ df.dtypes,
            [i \in 1..Len(df.rows) |-> (name :> <<values[i]>>) @@ df.rows[i]])

\* pl.col(c).n_unique()
NUnique(df, col) == Cardinality(Range(Column(df, col)))

\* ---- the cleaned files the transformer is run on ----
\* largest number of rows of a cleaned file given to the transformer
MaxIdRows == 2

\* the digit widths ID_DIGITS is configured with
DigitWidths == {1, 2}

CleanedCellDomain(col) == IF col = ID_COLUMN_NAME THEN {<<7>>, <<8>>} ELSE {<<"a">>}

RECURSIVE CleanedRowSet(_)
CleanedRowSet(cols) ==
  IF cols = <<>> THEN {<<>>}
  ELSE {(Head(cols) :> v) @@ r : v \in CleanedCellDomain(Head(cols)), r \in CleanedRowSet(Tail(cols))}

CleanedTables(cols, n) ==
  {DataFrame(cols, [c \in Range(cols) |-> IF c = ID_COLUMN_NAME THEN "Int64" ELSE "Utf8"], rows) :
     rows \in [1..n -> CleanedRowSet(cols)]}

NewTransformer(cleaned_file, digits) ==
  [pc |-> "read_cleaned", cleaned_file |-> cleaned_file, ID_DIGITS |-> digits, df |-> Null,
   types_report |-> Null, id_report |-> Null, text_report |-> Null,
   price_report |-> Null,
   failed_in |-> None, error |-> None]

TransformerInit ==
  /\ \E digits \in DigitWidths :
       \/ transformer = NewTransformer([exists |-> FALSE, table |-> DataFrame(<<>>, <<>>, <<>>)], digits)
       \/ \E cols \in {<<"title">>, <<"id", "title">>}, n \in 0..MaxIdRows :
            \E t \in CleanedTables(cols, n) :
              transformer = NewTransformer([exists |-> TRUE, table |-> t], digits)
  /\ runner = Idle
  /\ cleaner = Idle
  /\ fe = Idle
  /\ eda = Idle
  /\ api = Idle
  /\ scraper = Idle

TransformerFail(t, where, error) == [t EXCEPT !.pc = "failed", !.failed_in = where, !.error = error]

\* read_cleaned
ReadCleaned ==
  /\ transformer.pc = "read_cleaned"
  /\ transformer' =
       IF ~transformer.cleaned_file.exists
         THEN TransformerFail(transformer, "read_cleaned", "FileNotFoundError")
         ELSE [transformer EXCEPT !.df = <<transformer.cleaned_file.table>>, !.pc = "infer_column_types"]
  /\ UNCHANGED <<runner, cleaner, fe, eda, api, scraper>>

\* DataTypeHelper.map_dtype_to_category
map_dtype_to_category(dtype) ==
  IF dtype \in NUMERIC_DTYPES THEN "numeric"
  ELSE IF dtype \in {"Utf8", "Categorical"} THEN "categorical"
  ELSE IF dtype = "Boolean" THEN "boolean"
  ELSE "other"

\* infer_column_types
InferColumnTypes ==
  /\ transformer.pc = "infer_column_types"
  /\ transformer' =
       IF IsNull(transformer.df)
         THEN TransformerFail(transformer, "infer_column_types", "ValueError")
         ELSE LET df == transformer.df[1]
              IN [transformer EXCEPT
                    !.types_report = <<[i \in 1..Len(df.columns) |->
                         [column |-> df.columns[i], polars_dtype |-> df.dtypes[df.columns[i]],
                          inferred_kind |-> map_dtype_to_category(df.dtypes[df.columns[i]])]]>>,
                    !.pc = "add_unique_id"]
  /\ UNCHANGED <<runner, cleaner, fe, eda, api, scraper>>

\* add_unique_id
AddUniqueId ==
  /\ transformer.pc = "add_unique_id"
  /\ IF IsNull(transformer.df)
       THEN transformer' = TransformerFail(transformer, "add_unique_id", "ValueError")
       ELSE LET df == transformer.df[1]
            IN IF HasColumn(df, ID_COLUMN_NAME)
                 THEN transformer' = [transformer EXCEPT
                        !.id_report = <<[status |-> "id_column_exists", rows |-> Height(df),
                                         unique_ids |-> NUnique(df, ID_COLUMN_NAME)]>>,
                        !.pc = "normalize_text_columns"]
                 ELSE \E g \in generate_unique_ids(Height(df), transformer.ID_DIGITS) :
                        transformer' =
                          IF g.error # None
                            THEN TransformerFail(transformer, "add_unique_id", g.error)
                            ELSE [transformer EXCEPT
                                    !.df = <<AppendColumn(df, ID_COLUMN_NAME, "Int64", g.ids)>>,
                                    !.id_report = <<[status |-> "generated", rows |-> Height(df),
                                                     unique_ids |-> Cardinality(Range(g.ids))]>>,
                                    !.pc = "normalize_text_columns"]
  /\ UNCHANGED <<runner, cleaner, fe, eda, api, scraper>>

TransformerNext ==
  \/ ReadCleaned
  \/ InferColumnTypes
  \/ AddUniqueId

SpecTransformer == TransformerInit /\ [][TransformerNext]_vars

\* ---- IdGenerator.generate_unique_ids called on its own ----
\* the requests: up to SmallIdCount ids, exactly the capacity of one digit,
\* and up to OverCapacity ids more than the capacity of either width
SmallIdCount == 1

OverCapacity == 1

IdCounts(digits) ==
  (0..SmallIdCount) \cup (IF digits = 1 THEN {9} ELSE {})
     \cup ((9 * 10 ^ (digits - 1) + 1)..(9 * 10 ^ (digits - 1) + OverCapacity))

IdInit ==
  /\ \E digits \in DigitWidths : \E count \in IdCounts(digits) :
       transformer = [pc |-> "generate_unique_ids", count |-> count, digits |-> digits,
                      ids |-> Null, error |-> None]
  /\ runner = Idle
  /\ cleaner = Idle
  /\ fe = Idle
  /\ eda = Idle
  /\ api = Idle
  /\ scraper = Idle

\* random.sample(population, k) returning into transformer.ids: the k draws
\* of the call, each from the part of the population not drawn yet
RECURSIVE random_sample_returns(_, _, _)
random_sample_returns(drawn, k, population) ==
  IF k = 0
    THEN transformer' = [transformer EXCEPT !.pc = "returned", !.ids = <<drawn>>]
    ELSE \E x \in population \ Range(drawn) :
           random_sample_returns(Append(drawn, x), k - 1, population)

\* one call of generate_unique_ids(count, digits); the outcomes are those of
\* the operator generate_unique_ids, produced draw by draw
GenerateUniqueIds ==
  /\ transformer.pc = "generate_unique_ids"
  /\ LET low == 10 ^ (transformer.digits - 1)
         high == (10 ^ transformer.digits) - 1
         capacity == IdCapacity(transformer.digits)
     IN IF transformer.count > capacity
          THEN transformer' = [transformer EXCEPT !.pc = "raised", !.error = "ValueError"]
          ELSE random_sample_returns(<<>>, transformer.count, low..high)
  /\ UNCHANGED <<runner, cleaner, fe, eda, api, scraper>>

IdNext == GenerateUniqueIds

SpecIds == IdInit /\ [][IdNext]_vars

(***************************************************************************)
(* IEEE-754 binary64 arithmetic (numpy float64), as far as MinMaxScaler    *)
(* uses it.  A float is [sign, bits, exp] with value                       *)
(* (-1)^sign * bits * 2^exp, bits a binary numeral (most significant bit   *)
(* first) without leading or trailing zeros; every operation rounds its    *)
(* exact result to 53 significant bits, ties to even.                      *)
(***************************************************************************)
\* significand width of binary64
MantissaBits == 53

RECURSIVE NatBits(_)
NatBits(n) == IF n = 0 THEN <<>> ELSE Append(NatBits(n \div 2), n % 2)

RECURSIVE StripLeading(_)
StripLeading(b) == IF b # <<>> /\ Head(b) = 0 THEN StripLeading(Tail(b)) ELSE b

RECURSIVE TrailingZeros(_)
TrailingZeros(b) ==
  IF b # <<>> /\ b[Len(b)] = 0 THEN 1 + TrailingZeros(SubSeq(b, 1, Len(b) - 1)) ELSE 0

Zeros(n) == [i \in 1..n |-> 0]

FZero == [sign |-> 0, bits |-> <<>>, exp |-> 0]

FOne == [sign |-> 0, bits |-> <<1>>, exp |-> 0]

\* the canonical float of (-1)^sign * bits * 2^exp
Canon(sign, bits, exp) ==
  LET b == StripLeading(bits)
      z == TrailingZeros(b)
  IN IF b = <<>> THEN FZero
     ELSE [sign |-> sign, bits |-> SubSeq(b, 1, Len(b) - z), exp |-> exp + z]

\* bits + 1
RECURSIVE Increment(_)
Increment(b) ==
  IF b = <<>> THEN <<1>>
  ELSE IF b[Len(b)] = 0 THEN [b EXCEPT ![Len(b)] = 1]
  ELSE Append(Increment(SubSeq(b, 1, Len(b) - 1)), 0)

\* round an exact value bits * 2^exp (plus a nonzero remainder below the
\* last bit when sticky) to 53 significant bits, ties to even
RoundNearestEven(sign, bits, exp, sticky) ==
  LET b == StripLeading(bits)
      n == Len(b)
  IN IF n <= MantissaBits THEN Canon(sign, b, exp)
     ELSE LET kept == SubSeq(b, 1, MantissaBits)
              guard == b[MantissaBits + 1]
              rest == sticky \/ \E i \in (MantissaBits + 2)..n : b[i] = 1
              up == guard = 1 /\ (rest \/ kept[MantissaBits] = 1)
          IN Canon(sign, IF up THEN Increment(kept) ELSE kept, exp + (n - MantissaBits))

\* the binary expansion of 1/r: [bits, exp, rem] after enough steps to
\* hold 55 significant bits; rem # 0 iff the expansion goes on
RECURSIVE ReciprocalBits(_, _, _, _)
ReciprocalBits(r, rem, bits, steps) ==
  IF rem = 0 \/ Len(StripLeading(bits)) >= MantissaBits + 2
    THEN [bits |-> bits, exp |-> 0 - steps, rem |-> rem]
    ELSE LET d == 2 * rem
         IN ReciprocalBits(r, IF d >= r THEN d - r ELSE d,
                           Append(bits, IF d >= r THEN 1 ELSE 0), steps + 1)

\* float64(n) / float64(r) for natural numbers n and r >= 1
FDiv(n, r) ==
  LET q == ReciprocalBits(r, n % r, NatBits(n \div r), 0)
  IN RoundNearestEven(0, q.bits, q.exp, q.rem # 0)

\* 1.0 / float64(r)
FReciprocal(r) == FDiv(1, r)

RECURSIVE BitsToNat(_)
BitsToNat(b) == IF b = <<>> THEN 0 ELSE 2 * BitsToNat(SubSeq(b, 1, Len(b) - 1)) + b[Len(b)]

\* int(math.ceil(f)) for a float f >= 0 (a canonical float with exp < 0 has
\* a fractional part)
FCeil(f) ==
  IF f.exp >= 0 THEN BitsToNat(f.bits \o Zeros(f.exp))
  ELSE IF Len(f.bits) <= 0 - f.exp THEN 1
  ELSE BitsToNat(SubSeq(f.bits, 1, Len(f.bits) + f.exp)) + 1

\* the binary numeral bits * n (n a small natural number), with carry in
RECURSIVE MulBits(_, _, _)
MulBits(bits, n, carry) ==
  IF bits = <<>> THEN NatBits(carry)
  ELSE LET t == bits[Len(bits)] * n + carry
           rest == SubSeq(bits, 1, Len(bits) - 1)
       IN IF t % 2 = 0 THEN Append(MulBits(rest, n, t \div 2), 0)
          ELSE Append(MulBits(rest, n, t \div 2), 1)

\* float64(n) * f for a natural number n and a float f >= 0
FMulNat(n, f) == RoundNearestEven(f.sign, MulBits(f.bits, n, 0), f.exp, FALSE)

\* a >= b for binary numerals of equal length
RECURSIVE BitsGeq(_, _)
BitsGeq(a, b) ==
  IF a = <<>> THEN TRUE
  ELSE IF Head(a) # Head(b) THEN Head(a) > Head(b)
  ELSE BitsGeq(Tail(a), Tail(b))

\* a - b for binary numerals of equal length with a >= b, with borrow in
RECURSIVE SubBits(_, _, _)
SubBits(a, b, borrow) ==
  IF a = <<>> THEN <<>>
  ELSE LET t == a[Len(a)] - b[Len(b)] - borrow
           ra == SubSeq(a, 1, Len(a) - 1)
           rb == SubSeq(b, 1, Len(b) - 1)
       IN IF t < 0 THEN Append(SubBits(ra, rb, 1), t + 2)
          ELSE Append(SubBits(ra, rb, 0), t)

\* a - b for floats a, b >= 0
FSub(a, b) ==
  LET e == Min2(a.exp, b.exp)
      xa == a.bits \o Zeros(a.exp - e)
      xb == b.bits \o Zeros(b.exp - e)
      n == IF Len(xa) >= Len(xb) THEN Len(xa) ELSE Len(xb)
      pa == Zeros(n - Len(xa)) \o xa
      pb == Zeros(n - Len(xb)) \o xb
  IN IF BitsGeq(pa, pb)
       THEN RoundNearestEven(0, SubBits(pa, pb, 0), e, FALSE)
       ELSE RoundNearestEven(1, SubBits(pb, pa, 0), e, FALSE)

\* f < 0 and f > 1 for a canonical float f
FNegative(f) == f.sign = 1

FGreaterThanOne(f) ==
  f.sign = 0 /\ f.bits # <<>> /\ f.exp + Len(f.bits) - 1 >= 0 /\ f # FOne

(***************************************************************************)
(* FeatureEngineer  (scripts/feature_engineering.py)                       *)
(* Prices are integral doubles, held as integers; the columns computed by  *)
(* MinMaxScaler hold binary64 values.                                      *)
(***************************************************************************)
PRICE_COLUMN_NAME == "price"

STOCK_COLUMN_NAME == "stock"

OUTLIER_COLUMNS == <<PRICE_COLUMN_NAME, STOCK_COLUMN_NAME>>

\* OUTLIER_IQR_FACTOR = 1.5, in halves
OUTLIER_IQR_FACTOR_HALVES == 3

\* FEATURE_TEST_SIZE = 0.3: the double nearest to 3/10
FEATURE_TEST_SIZE == FDiv(3, 10)

\* random.seed(FEATURE_RANDOM_SEED); indices = list(range(total));
\* random.shuffle(indices): the order CPython's generator gives for seed 42
\* (0-based row indices)
shuffle(total) ==
  CASE total = 1 -> <<0>>
    [] total = 2 -> <<1, 0>>
    [] total = 3 -> <<1, 0, 2>>
    [] total = 4 -> <<2, 1, 3, 0>>
    [] total = 5 -> <<3, 1, 2, 4, 0>>
    [] total = 6 -> <<3, 1, 2, 4, 0, 5>>
    [] total = 7 -> <<1, 3, 4, 2, 6, 0, 5>>
    [] total = 8 -> <<3, 4, 6, 7, 2, 5, 0, 1>>

\* the test size rounded down instead of up
test_size_Floor(total) == FCeil(FMulNat(total, FEATURE_TEST_SIZE)) - 1

\* test_size = int(math.ceil(total * FEATURE_TEST_SIZE))
test_size(total) == FCeil(FMulNat(total, FEATURE_TEST_SIZE))

\* test_indices = set(indices[:test_size])
test_indices(total) == {shuffle(total)[k] : k \in 1..test_size(total)}

\* (test_rows if idx in test_indices else train_rows).append(row): the rows
\* whose 0-based position is (in_test) or is not in indices, in row order
SplitRows(df, indices, in_test) ==
  LET idx == SelectSeq([i \in 1..Len(df.rows) |-> i], LAMBDA i : ((i - 1) \in indices) = in_test)
  IN [df EXCEPT !.rows = [k \in 1..Len(idx) |-> df.rows[idx[k]]]]

\* Series.quantile(q), interpolation "nearest": the sorted non-null value at
\* index round((n - 1) * q), None when there is none; q in hundredths
Quantile(cells, q_pct) ==
  LET v == SortedValues(cells)
      n == Len(v)
  IN IF n = 0 THEN Null ELSE <<v[(((n - 1) * q_pct + 50) \div 100) + 1]>>

\* (pl.col(col) >= lower) & (pl.col(col) <= upper), bounds given doubled
WithinBounds_Strict(v, lower2, upper2) == 2 * v > lower2 /\ 2 * v < upper2

WithinBounds(v, lower2, upper2) == 2 * v >= lower2 /\ 2 * v <= upper2

\* a slip in the filter: the upper bound left out
FilterOutliers_LowerOnly(df, col, lower2, upper2) ==
  [df EXCEPT !.rows = SelectSeq(@, LAMBDA r : IsNull(r[col]) \/ 2 * Val(r[col]) >= lower2)]

\* DataFrame.filter(within bounds | pl.col(col).is_null())
FilterOutliers(df, col, lower2, upper2) ==
  [df EXCEPT !.rows = SelectSeq(@, LAMBDA r :
     IsNull(r[col]) \/ WithinBounds(Val(r[col]), lower2, upper2))]

OutlierRecord(col, status, q1, q3, lower2, upper2, removed_train, removed_test) ==
  [column |-> col, status |-> status, q1 |-> q1, q3 |-> q3, lower2 |-> lower2,
   upper2 |-> upper2, removed_train |-> removed_train, removed_test |-> removed_test]

\* a slip in the loop: the test for a zero IQR left out
RECURSIVE remove_outliers_loop_NoZeroIqrCheck(_, _, _, _)
remove_outliers_loop_NoZeroIqrCheck(cols, train, test, records) ==
  IF cols = <<>> THEN [train |-> train, test |-> test, records |-> records]
  ELSE
    LET col == Head(cols)
        skip(status, q1, q3) ==
          remove_outliers_loop_NoZeroIqrCheck(Tail(cols), train, test,
            Append(records, OutlierRecord(col, status, q1, q3, Null, Null, Null, Null)))
    IN IF ~HasColumn(train, col) THEN skip("missing", Null, Null)
       ELSE IF train.dtypes[col] \notin NUMERIC_DTYPES THEN skip("non_numeric", Null, Null)
       ELSE
         LET q1 == Quantile(Column(train, col), 25)
             q3 == Quantile(Column(train, col), 75)
         IN IF IsNull(q1) \/ IsNull(q3) THEN skip("no_quantiles", Null, Null)
            ELSE
              LET iqr == Val(q3) - Val(q1)
                  lower2 == 2 * Val(q1) - OUTLIER_IQR_FACTOR_HALVES * iqr
                  upper2 == 2 * Val(q3) + OUTLIER_IQR_FACTOR_HALVES * iqr
                  train2 == FilterOutliers(train, col, lower2, upper2)
                  test2 == IF HasColumn(test, col)
                             THEN FilterOutliers(test, col, lower2, upper2) ELSE test
              IN remove_outliers_loop_NoZeroIqrCheck(Tail(cols), train2, test2,
                   Append(records, OutlierRecord(col, "filtered", q1, q3, <<lower2>>, <<upper2>>,
                            <<Height(train) - Height(train2)>>, <<Height(test) - Height(test2)>>)))

\* the loop of remove_outliers over OUTLIER_COLUMNS; train is rebound by
\* every filtered column, so a later column's quantiles are taken over the
\* rows the earlier columns left in train
RECURSIVE remove_outliers_loop(_, _, _, _)
remove_outliers_loop(cols, train, test, records) ==
  IF cols = <<>> THEN [train |-> train, test |-> test, records |-> records]
  ELSE
    LET col == Head(cols)
        skip(status, q1, q3) ==
          remove_outliers_loop(Tail(cols), train, test,
            Append(records, OutlierRecord(col, status, q1, q3, Null, Null, Null, Null)))
    IN IF ~HasColumn(train, col) THEN skip("missing", Null, Null)
       ELSE IF train.dtypes[col] \notin NUMERIC_DTYPES THEN skip("non_numeric", Null, Null)
       ELSE
         LET q1 == Quantile(Column(train, col), 25)
             q3 == Quantile(Column(train, col), 75)
         IN IF IsNull(q1) \/ IsNull(q3) THEN skip("no_quantiles", Null, Null)
            ELSE IF Val(q3) - Val(q1) = 0 THEN skip("zero_iqr", q1, q3)
            ELSE
              LET iqr == Val(q3) - Val(q1)
                  lower2 == 2 * Val(q1) - OUTLIER_IQR_FACTOR_HALVES * iqr
                  upper2 == 2 * Val(q3) + OUTLIER_IQR_FACTOR_HALVES * iqr
                  train2 == FilterOutliers(train, col, lower2, upper2)
                  test2 == IF HasColumn(test, col)
                             THEN FilterOutliers(test, col, lower2, upper2) ELSE test
              IN remove_outliers_loop(Tail(cols), train2, test2,
                   Append(records, OutlierRecord(col, "filtered", q1, q3, <<lower2>>, <<upper2>>,
                            <<Height(train) - Height(train2)>>, <<Height(test) - Height(test2)>>)))

\* with_columns(<expression>.alias(name)): a new last column, or a new
\* content for the column of that name
WithColumn(df, name, dtype, cells) ==
  DataFrame(IF HasColumn(df, name) THEN df.columns ELSE Append(df.columns, name),
            (name :> dtype) @@ df.dtypes,
            [i \in 1..Len(df.rows) |-> (name :> cells[i]) @@ df.rows[i]])

\* pl.read_csv: a column in which no row has a value is read as a string
\* column, whatever the writer's dtype was
read_csv(table) ==
  [table EXCEPT !.dtypes = [c \in DOMAIN @ |->
     IF \A i \in 1..Len(table.rows) : IsNull(table.rows[i][c]) THEN "Utf8" ELSE @[c]]]

TEXT_TITLE_COLUMN == "title"

TEXT_CATEGORY_COLUMN == "category"

\* Python's len(s), len(s.split()), any(ch.isdigit() for ch in s) and
\* len(s.split('_')) on the strings that occur in the tables of the model;
\* map_elements leaves a null cell null
safe_len(cell) == IF IsNull(cell) THEN Null ELSE <<IF Val(cell) = "b_c" THEN 3 ELSE 1>>

word_count(cell) == IF IsNull(cell) THEN Null ELSE <<1>>

has_number(cell) == IF IsNull(cell) THEN Null ELSE <<FALSE>>

cat_token_count(cell) == IF IsNull(cell) THEN Null ELSE <<IF Val(cell) = "b_c" THEN 2 ELSE 1>>

MapColumn(df, col, fn(_)) == [i \in 1..Len(df.rows) |-> fn(df.rows[i][col])]

title_features(df) ==
  WithColumn(WithColumn(WithColumn(df,
    "title_len", "Int64", MapColumn(df, TEXT_TITLE_COLUMN, safe_len)),
    "title_word_count", "Int64", MapColumn(df, TEXT_TITLE_COLUMN, word_count)),
    "title_has_number", "Boolean", MapColumn(df, TEXT_TITLE_COLUMN, has_number))

category_features(df) ==
  WithColumn(df, "category_token_count", "Int64", MapColumn(df, TEXT_CATEGORY_COLUMN, cat_token_count))

\* ---- the processed files the feature engineer is run on ----
\* largest number of rows of a processed file
MaxFeRows == 5

\* FEATURE_SELECTION_K as configured, and a value small enough to bind
FEATURE_SELECTION_K == 20

SmallSelectionK == 1

FePriceCells == {Null, <<7>>, <<12>>, <<13>>}

\* files with a price column only
PriceFiles(n) ==
  {DataFrame(<<"price">>, [c \in {"price"} |-> "Float64"], rows) :
     rows \in [1..n -> {[c \in {"price"} |-> v] : v \in FePriceCells}]}

\* files with price and stock
StockRowKinds ==
  {[price |-> <<p>>, stock |-> <<st>>] :
     <<p, st>> \in {<<7, 6>>, <<12, 1>>, <<13, 4>>, <<13, 0>>}}

StockFiles(n) ==
  {DataFrame(<<"price", "stock">>, [c \in {"price", "stock"} |->
                IF c = "price" THEN "Float64" ELSE "Int64"], rows) :
     rows \in [1..n -> StockRowKinds]}

\* files without a price column: stock only
StockOnlyFiles(n) ==
  {DataFrame(<<"stock">>, [c \in {"stock"} |-> "Int64"], rows) :
     rows \in [1..n -> {[c \in {"stock"} |-> <<v>>] : v \in {1, 4}}]}

\* files with id, price and category; the ids are 11, 12, ...
CategoryFiles(n) ==
  {DataFrame(<<"id", "price", "category">>,
             [c \in {"id", "price", "category"} |->
                IF c = "id" THEN "Int64" ELSE IF c = "price" THEN "Float64" ELSE "Utf8"],
             [i \in 1..n |-> [id |-> <<10 + i>>, price |-> <<f[i][1]>>, category |-> <<f[i][2]>>]]) :
     f \in [1..n -> {7, 12} \X {"a", "b_c"}]}

NewFeatureEngineer(processed_file, k) ==
  [pc |-> "read_processed", processed_file |-> processed_file, FEATURE_SELECTION_K |-> k,
   df |-> Null, train_df |-> Null, test_df |-> Null,
   features_train |-> Null, features_test |-> Null,
   split_report |-> Null, outlier_report |-> Null, text_report |-> Null,
   scaling_report |-> Null, categorical_report |-> Null, extra_report |-> Null,
   feature_selection_report |-> Null, saved |-> Null, failed_in |-> None, error |-> None]

FEInit ==
  /\ \/ fe = NewFeatureEngineer([exists |-> FALSE, table |-> DataFrame(<<>>, <<>>, <<>>)],
                                FEATURE_SELECTION_K)
     \/ \E n \in 0..MaxFeRows : \E t \in PriceFiles(n) \cup StockOnlyFiles(n) :
          fe = NewFeatureEngineer([exists |-> TRUE, table |-> t], FEATURE_SELECTION_K)
     \/ \E n \in 0..(MaxFeRows - 1) : \E t \in StockFiles(n) :
          fe = NewFeatureEngineer([exists |-> TRUE, table |-> t], FEATURE_SELECTION_K)
     \/ \E n \in 0..(MaxFeRows - 1), k \in {SmallSelectionK, FEATURE_SELECTION_K} :
          \E t \in CategoryFiles(n) :
            fe = NewFeatureEngineer([exists |-> TRUE, table |-> t], k)
  /\ runner = Idle
  /\ cleaner = Idle
  /\ transformer = Idle
  /\ eda = Idle
  /\ api = Idle
  /\ scraper = Idle

FEFail(f, where, error) == [f EXCEPT !.pc = "failed", !.failed_in = where, !.error = error]

\* read_processed
ReadProcessed ==
  /\ fe.pc = "read_processed"
  /\ fe' = IF ~fe.processed_file.exists
             THEN FEFail(fe, "read_processed", "FileNotFoundError")
             ELSE [fe EXCEPT !.df = <<read_csv(fe.processed_file.table)>>, !.pc = "initial_split"]
  /\ UNCHANGED <<runner, cleaner, transformer, eda, api, scraper>>

\* a slip: no total is refused
EmptyForSplit_Never(total) == total < 0

\* total == 0: "Dataset vazio para split."
EmptyForSplit(total) == total = 0

\* initial_split
InitialSplit ==
  /\ fe.pc = "initial_split"
  /\ fe' =
       IF IsNull(fe.df) THEN FEFail(fe, "initial_split", "ValueError")
       ELSE LET df == fe.df[1]
                total == Height(df)
            IN IF EmptyForSplit(total) THEN FEFail(fe, "initial_split", "ValueError")
               ELSE LET train == SplitRows(df, test_indices(total), FALSE)
                        test == SplitRows(df, test_indices(total), TRUE)
                    IN [fe EXCEPT !.train_df = <<train>>, !.test_df = <<test>>,
                                  !.split_report = <<[total_rows |-> total,
                                                      train_rows |-> Height(train),
                                                      test_rows |-> Height(test)]>>,
                                  !.pc = "remove_outliers"]
  /\ UNCHANGED <<runner, cleaner, transformer, eda, api, scraper>>

\* remove_outliers
RemoveOutliers ==
  /\ fe.pc = "remove_outliers"
  /\ fe' =
       IF IsNull(fe.train_df) THEN FEFail(fe, "remove_outliers", "ValueError")
       ELSE LET r == remove_outliers_loop(OUTLIER_COLUMNS, fe.train_df[1], fe.test_df[1], <<>>)
            IN [fe EXCEPT !.train_df = <<r.train>>, !.test_df = <<r.test>>,
                          !.outlier_report = <<r.records>>, !.pc = "add_text_features"]
  /\ UNCHANGED <<runner, cleaner, transformer, eda, api, scraper>>

\* add_text_features
AddTextFeatures ==
  /\ fe.pc = "add_text_features"
  /\ fe' =
       IF IsNull(fe.train_df) THEN FEFail(fe, "add_text_features", "ValueError")
       ELSE LET train0 == fe.train_df[1]
                test0 == fe.test_df[1]
                has_title == HasColumn(train0, TEXT_TITLE_COLUMN)
                train1 == IF has_title THEN title_features(train0) ELSE train0
                test1 == IF has_title /\ HasColumn(test0, TEXT_TITLE_COLUMN)
                           THEN title_features(test0) ELSE test0
                has_category == HasColumn(train1, TEXT_CATEGORY_COLUMN)
                train2 == IF has_category THEN category_features(train1) ELSE train1
                test2 == IF has_category /\ HasColumn(test1, TEXT_CATEGORY_COLUMN)
                           THEN category_features(test1) ELSE test1
            IN [fe EXCEPT !.train_df = <<train2>>, !.test_df = <<test2>>,
                          !.text_report = <<(IF has_title THEN <<TEXT_TITLE_COLUMN>> ELSE <<>>) \o
                                            (IF has_category THEN <<TEXT_CATEGORY_COLUMN>> ELSE <<>>)>>,
                          !.pc = "scale_price"]
  /\ UNCHANGED <<runner, cleaner, transformer, eda, api, scraper>>

\* f"{col}_minmax" for col = FEATURE_PRICE_MINMAX_COLUMN = PRICE_COLUMN_NAME
PRICE_MINMAX_COLUMN == "price_minmax"

\* numpy's nan: the record that is no canonical float
FNaN == [sign |-> 0, bits |-> <<>>, exp |-> 1]

\* MinMaxScaler.fit on data_min < data_max:
\*   scale_ = (1 - 0) / (data_max - data_min);  min_ = 0 - data_min * scale_
\* (min_ is held by its magnitude, data_min being >= 0)
minmax_fit(data_min, data_max) ==
  LET scale_ == FReciprocal(data_max - data_min)
  IN [scale_ |-> scale_, neg_min_ |-> FMulNat(data_min, scale_)]

\* MinMaxScaler.transform of one cell: X *= scale_; X += min_ (to_numpy
\* gives nan for a null cell, and transform keeps nan)
minmax_transform(x, scaler) ==
  IF IsNull(x) THEN FNaN ELSE FSub(FMulNat(Val(x), scaler.scale_), scaler.neg_min_)

\* the body of scale_price once the price column is known to be there:
\* [error, train, test, report]
scale_price_values(train, test) ==
  LET col == PRICE_COLUMN_NAME
      values_train == Column(train, col)
      values_test == Column(test, col)
      sorted == SortedValues(values_train)
      fail(e) == [error |-> e, train |-> train, test |-> test, report |-> Null]
      done(scaled_train, scaled_test) ==
        [error |-> None,
         train |-> WithColumn(train, PRICE_MINMAX_COLUMN, "Float64", scaled_train),
         test |-> IF Len(values_test) # 0
                    THEN WithColumn(test, PRICE_MINMAX_COLUMN, "Float64", scaled_test)
                    ELSE test,
         report |-> <<[status |-> "scaled", column |-> col,
                       min |-> IF sorted = <<>> THEN Null ELSE <<sorted[1]>>,
                       max |-> IF sorted = <<>> THEN Null ELSE <<sorted[Len(sorted)]>>]>>]
  IN \* np.nanstd of an object array (a string column) raises TypeError
     IF train.dtypes[col] \notin NUMERIC_DTYPES THEN fail("TypeError")
     \* np.nanstd of no row is nan, and MinMaxScaler rejects an array of 0 samples
     ELSE IF Len(values_train) = 0 THEN fail("ValueError")
     \* np.nanstd(values_train) == 0: every value there is is the same
     ELSE IF sorted # <<>> /\ sorted[1] = sorted[Len(sorted)]
       THEN done([i \in 1..Len(values_train) |-> <<FZero>>],
                 [i \in 1..Len(values_test) |-> <<FZero>>])
     \* nothing but nan in train: data_min, data_max and scale_ are nan
     ELSE IF sorted = <<>>
       THEN done([i \in 1..Len(values_train) |-> <<FNaN>>],
                 [i \in 1..Len(values_test) |-> <<FNaN>>])
     ELSE LET scaler == minmax_fit(sorted[1], sorted[Len(sorted)])
          IN done([i \in 1..Len(values_train) |-> <<minmax_transform(values_train[i], scaler)>>],
                  [i \in 1..Len(values_test) |-> <<minmax_transform(values_test[i], scaler)>>])

\* scale_price
ScalePrice ==
  /\ fe.pc = "scale_price"
  /\ fe' =
       IF IsNull(fe.train_df) THEN FEFail(fe, "scale_price", "ValueError")
       ELSE IF ~HasColumn(fe.train_df[1], PRICE_COLUMN_NAME)
         THEN [fe EXCEPT !.scaling_report = <<[status |-> "missing_price_column",
                                               column |-> PRICE_COLUMN_NAME,
                                               min |-> Null, max |-> Null]>>,
                         !.features_train = fe.train_df,
                         !.features_test = fe.test_df,
                         !.pc = "encode_categoricals"]
       ELSE LET r == scale_price_values(fe.train_df[1], fe.test_df[1])
            IN IF r.error # None THEN FEFail(fe, "scale_price", r.error)
               ELSE [fe EXCEPT !.features_train = <<r.train>>, !.features_test = <<r.test>>,
                               !.scaling_report = r.report, !.pc = "encode_categoricals"]
  /\ UNCHANGED <<runner, cleaner, transformer, eda, api, scraper>>

MAX_CATEGORICAL_CARDINALITY_OHE == 30

\* the strings of the model's tables in sorted order (OneHotEncoder keeps
\* the categories of a column sorted)
SortedStrings == <<"a", "b_c">>

\* OneHotEncoder.fit fitted on both partitions: categories of train and test
fit_categories_TrainAndTest(train, test, col) ==
  SelectSeq(SortedStrings, LAMBDA c : <<c>> \in Range(Column(train, col)) \cup Range(Column(test, col)))

\* OneHotEncoder.fit(cat_train).categories_ for one column
fit_categories(train, test, col) ==
  SelectSeq(SortedStrings, LAMBDA c : <<c>> \in Range(Column(train, col)))

\* f"{base_col}__{cat}"
encoded_name(base_col, cat) ==
  CASE base_col = "category" /\ cat = "a" -> "category__a"
    [] base_col = "category" /\ cat = "b_c" -> "category__b_c"
    [] base_col = "title" /\ cat = "a" -> "title__a"
    [] base_col = "title" /\ cat = "b_c" -> "title__b_c"

\* transform with handle_unknown="ignore", then pl.concat(how="horizontal"):
\* one indicator column per fitted category, 1.0 where the row has it
RECURSIVE one_hot(_, _, _)
one_hot(df, base_col, cats) ==
  IF cats = <<>> THEN df
  ELSE one_hot(WithColumn(df, encoded_name(base_col, Head(cats)), "Float64",
                 [i \in 1..Len(df.rows) |->
                    IF df.rows[i][base_col] = <<Head(cats)>> THEN <<1>> ELSE <<0>>]),
               base_col, Tail(cats))

\* the encoded columns of all candidate columns, fitted on train
RECURSIVE encode_candidates(_, _, _, _)
encode_candidates(candidates, train, test, df) ==
  IF candidates = <<>> THEN df
  ELSE encode_candidates(Tail(candidates), train, test,
         one_hot(df, Head(candidates), fit_categories(train, test, Head(candidates))))

\* candidate_cols of encode_categoricals
candidate_cols(train_df) ==
  SelectSeq(train_df.columns, LAMBDA c :
    /\ c \notin {ID_COLUMN_NAME, PRICE_COLUMN_NAME, PRICE_MINMAX_COLUMN}
    /\ train_df.dtypes[c] \in {"Utf8", "Categorical"}
    /\ NUnique(train_df, c) <= MAX_CATEGORICAL_CARDINALITY_OHE)

\* encode_categoricals
EncodeCategoricals ==
  /\ fe.pc = "encode_categoricals"
  /\ fe' =
       IF IsNull(fe.features_train) THEN FEFail(fe, "encode_categoricals", "ValueError")
       ELSE LET train_df == fe.features_train[1]
                test_df == fe.features_test[1]
                candidates == candidate_cols(train_df)
            IN IF candidates = <<>>
                 THEN [fe EXCEPT !.categorical_report =
                                    <<[status |-> "no_categorical_columns_encoded", columns |-> <<>>]>>,
                                 !.pc = "create_extra_features"]
               \* sklearn's check_array rejects an array of 0 samples, in
               \* fit_transform for train and in transform for test
               ELSE IF Height(train_df) = 0 \/ Height(test_df) = 0
                 THEN FEFail(fe, "encode_categoricals", "ValueError")
               ELSE [fe EXCEPT
                       !.features_train = <<encode_candidates(candidates, train_df, test_df, train_df)>>,
                       !.features_test = <<encode_candidates(candidates, train_df, test_df, test_df)>>,
                       !.categorical_report = <<[status |-> "encoded", columns |-> candidates]>>,
                       !.pc = "create_extra_features"]
  /\ UNCHANGED <<runner, cleaner, transformer, eda, api, scraper>>

\* when(price > 0).then(price.log()).otherwise(None): the logarithm is kept
\* as a term over the price
price_log(df) ==
  WithColumn(df, "price_log", "Float64",
    [i \in 1..Len(df.rows) |->
       LET c == df.rows[i][PRICE_COLUMN_NAME]
       IN IF ~IsNull(c) /\ Val(c) > 0 THEN <<[log_of |-> Val(c)]>> ELSE Null])

\* create_extra_features.  The bucket block asks for
\* select(quantile([0.2, 0.4, 0.6, 0.8]))[0].to_list(): DataFrame[0] is a
\* DataFrame, which has no to_list, so the block ends in its except branch
\* and adds no column.
CreateExtraFeatures ==
  /\ fe.pc = "create_extra_features"
  /\ fe' =
       IF IsNull(fe.features_train) THEN FEFail(fe, "create_extra_features", "ValueError")
       ELSE LET train_df == fe.features_train[1]
                test_df == fe.features_test[1]
                has_price == HasColumn(train_df, PRICE_COLUMN_NAME)
            IN IF has_price /\ train_df.dtypes[PRICE_COLUMN_NAME] \notin NUMERIC_DTYPES
                 \* pl.col(price) > 0 on a string column
                 THEN FEFail(fe, "create_extra_features", "ComputeError")
               ELSE [fe EXCEPT
                       !.features_train = <<IF has_price THEN price_log(train_df) ELSE train_df>>,
                       !.features_test = <<IF has_price /\ HasColumn(test_df, PRICE_COLUMN_NAME)
                                             THEN price_log(test_df) ELSE test_df>>,
                       !.extra_report = <<IF has_price
                                            THEN <<[feature |-> "price_log", status |-> "created"],
                                                   [feature |-> "price_bucket", status |-> "failed"]>>
                                            ELSE <<[feature |-> "", status |-> "no_extra_features"]>>>>,
                       !.pc = "feature_selection"]
  /\ UNCHANGED <<runner, cleaner, transformer, eda, api, scraper>>

FEATURE_SELECTION_TARGET == PRICE_COLUMN_NAME

\* a slip in the dtype test: string columns pass as numeric
SelectionNumericDtypes_WithUtf8 == {"Int64", "Int32", "Float64", "Float32", "Utf8"}

\* dt in (pl.Int64, pl.Int32, pl.Float64, pl.Float32)
SelectionNumericDtypes == {"Int64", "Int32", "Float64", "Float32"}

\* to_numpy() turns a null cell into nan; the scaled column may hold nan itself
IsNaNCell(col, cell) == IsNull(cell) \/ (col = PRICE_MINMAX_COLUMN /\ Val(cell) = FNaN)

HasNaN(df, cols) ==
  \E i \in 1..Len(df.rows) : \E k \in 1..Len(cols) : IsNaNCell(cols[k], df.rows[i][cols[k]])

\* k = len(feature_cols): the cap FEATURE_SELECTION_K left out
selection_k_All(K, feature_cols) == Len(feature_cols)

\* k = min(FEATURE_SELECTION_K, len(feature_cols))
selection_k(K, feature_cols) == Min2(K, Len(feature_cols))

\* SelectKBest(k).fit(X, y).get_support(indices=True): k of the columns, in
\* column order; which ones depends on the F-scores, any k of them here
SelectKBest(feature_cols, k) ==
  {SelectSeq(feature_cols, LAMBDA c : c \in chosen) :
     chosen \in {S \in SUBSET Range(feature_cols) : Cardinality(S) = k}}

\* feature_selection: the objects the call can leave behind
feature_selection(f) ==
  IF IsNull(f.features_train) THEN {FEFail(f, "feature_selection", "ValueError")}
  ELSE
    LET train == f.features_train[1]
        test == f.features_test[1]
        numeric_cols == SelectSeq(train.columns, LAMBDA c : train.dtypes[c] \in SelectionNumericDtypes)
        feature_cols == SelectSeq(numeric_cols, LAMBDA c : c # FEATURE_SELECTION_TARGET)
        k == selection_k(f.FEATURE_SELECTION_K, feature_cols)
    IN IF ~Contains(numeric_cols, FEATURE_SELECTION_TARGET)
         THEN {[f EXCEPT !.feature_selection_report =
                           <<[status |-> "target_not_numeric_or_missing", selected |-> <<>>]>>,
                         !.pc = "save_features"]}
       \* SelectKBest.fit validates X and y: no nan, at least one sample
       \* and one feature
       ELSE IF \/ Height(train) = 0
               \/ feature_cols = <<>>
               \/ HasNaN(train, feature_cols)
               \/ HasNaN(train, <<FEATURE_SELECTION_TARGET>>)
         THEN {FEFail(f, "feature_selection", "ValueError")}
       ELSE
         {LET with_target == Append(selected, FEATURE_SELECTION_TARGET)
              cols_to_keep == IF HasColumn(train, ID_COLUMN_NAME) /\ ~Contains(with_target, ID_COLUMN_NAME)
                                THEN Append(with_target, ID_COLUMN_NAME) ELSE with_target
              available == SelectSeq(cols_to_keep, LAMBDA c : HasColumn(test, c))
          IN [f EXCEPT !.features_train = <<SelectColumns(train, cols_to_keep)>>,
                       !.features_test = <<SelectColumns(test, available)>>,
                       !.feature_selection_report = <<[status |-> "selected", selected |-> selected]>>,
                       !.pc = "save_features"]
          : selected \in SelectKBest(feature_cols, k)}

FeatureSelection ==
  /\ fe.pc = "feature_selection"
  /\ fe' \in feature_selection(fe)
  /\ UNCHANGED <<runner, cleaner, transformer, eda, api, scraper>>

\* the end of run(): train and test are written, then save_features
\* concatenates them (how="vertical_relaxed"), which needs equal column lists
SaveFeatures ==
  /\ fe.pc = "save_features"
  /\ fe' =
       IF IsNull(fe.features_train)
         THEN [FEFail(fe, "save_features", "ValueError") EXCEPT
                 !.saved = <<[train |-> Null, test |-> fe.features_test, full |-> Null]>>]
       ELSE LET train == fe.features_train[1]
                test == fe.features_test[1]
            IN IF train.columns # test.columns
                 THEN [FEFail(fe, "save_features", "ShapeError") EXCEPT
                         !.saved = <<[train |-> <<train>>, test |-> <<test>>, full |-> Null]>>]
                 ELSE [fe EXCEPT !.saved = <<[train |-> <<train>>, test |-> <<test>>,
                                              full |-> <<[train EXCEPT !.rows = @ \o test.rows]>>]>>,
                                 !.pc = "done"]
  /\ UNCHANGED <<runner, cleaner, transformer, eda, api, scraper>>

FENext ==
  \/ ReadProcessed
  \/ InitialSplit
  \/ RemoveOutliers
  \/ AddTextFeatures
  \/ ScalePrice
  \/ EncodeCategoricals
  \/ CreateExtraFeatures
  \/ FeatureSelection
  \/ SaveFeatures

SpecFE == FEInit /\ [][FENext]_vars

(***************************************************************************)
(* NumericProcessor.parse_price (scripts/utils.py) and                     *)
(* DataTransformer.transform_price (scripts/transformation.py; the same    *)
(* steps are in scripts/data_transformer.py)                               *)
(* A price text is a sequence of one-character strings.  A parsed price is *)
(* the double nearest to a decimal numeral; for the short numerals used    *)
(* here two numerals give the same double iff they denote the same decimal *)
(* number, so a double is held as [num, scale] = num / 10^scale with no    *)
(* trailing zero in the fraction.                                          *)
(***************************************************************************)
DigitChars == {"0", "1", "2", "3", "4", "5", "6", "7", "8", "9"}
WhitespaceChars == {" "}

DigitValue(c) ==
  CASE c = "0" -> 0 [] c = "1" -> 1 [] c = "2" -> 2 [] c = "3" -> 3 [] c = "4" -> 4
    [] c = "5" -> 5 [] c = "6" -> 6 [] c = "7" -> 7 [] c = "8" -> 8 [] c = "9" -> 9

RECURSIVE DigitsToNat(_)
DigitsToNat(ds) ==
  IF ds = <<>> THEN 0
  ELSE 10 * DigitsToNat(SubSeq(ds, 1, Len(ds) - 1)) + DigitValue(ds[Len(ds)])

RECURSIVE Decimal(_, _)
Decimal(num, scale) ==
  IF scale > 0 /\ num % 10 = 0 THEN Decimal(num \div 10, scale - 1)
  ELSE [num |-> num, scale |-> scale]

\* str.strip()
RECURSIVE str_strip(_)
str_strip(s) ==
  IF s = <<>> THEN s
  ELSE IF Head(s) \in WhitespaceChars THEN str_strip(Tail(s))
  ELSE IF s[Len(s)] \in WhitespaceChars THEN str_strip(SubSeq(s, 1, Len(s) - 1))
  ELSE s

\* re.sub(r"[\s]", "", s) and re.sub(r"[^0-9,\.]", "", s)
remove_whitespace(s) == SelectSeq(s, LAMBDA c : c \notin WhitespaceChars)
keep_price_chars(s) == SelectSeq(s, LAMBDA c : c \in DigitChars \cup {",", "."})

\* str.find(c): index of the first occurrence counted from 0, -1 when absent
str_find(s, c) ==
  IF \E i \in 1..Len(s) : s[i] = c
    THEN (CHOOSE i \in 1..Len(s) : s[i] = c /\ \A j \in 1..(i - 1) : s[j] # c) - 1
    ELSE -1

\* str.replace(old, new) for a one-character old; new is "" or one character
RECURSIVE str_replace(_, _, _)
str_replace(s, old, new) ==
  IF s = <<>> THEN <<>>
  ELSE (IF Head(s) = old THEN new ELSE <<Head(s)>>) \o str_replace(Tail(s), old, new)

\* float(s) for a text of digits, commas and periods: a value, or Null for
\* ValueError (a comma, two periods, or no digit at all)
python_float(s) ==
  LET dots == {i \in 1..Len(s) : s[i] = "."}
  IN IF \/ \E i \in 1..Len(s) : s[i] \notin DigitChars \cup {"."}
        \/ Cardinality(dots) > 1
        \/ ~ \E i \in 1..Len(s) : s[i] \in DigitChars
       THEN Null
       ELSE LET p == IF dots = {} THEN Len(s) + 1 ELSE CHOOSE i \in dots : TRUE
            IN <<Decimal(DigitsToNat(SubSeq(s, 1, p - 1) \o SubSeq(s, p + 1, Len(s))),
                         Len(s) - Min2(p, Len(s)))>>

\* parse_price without the branch for a comma as the only separator
parse_price_NoCommaBranch(value) ==
  IF IsNull(value) THEN Null
  ELSE LET cleaned == keep_price_chars(remove_whitespace(str_strip(Val(value))))
       IN IF cleaned = <<>> THEN Null
          ELSE IF Contains(cleaned, ",") /\ Contains(cleaned, ".")
            THEN python_float(str_replace(
                   IF str_find(cleaned, ",") > str_find(cleaned, ".")
                     THEN str_replace(cleaned, ".", <<>>) ELSE cleaned,
                   ",", <<".">>))
          ELSE python_float(cleaned)

\* NumericProcessor.parse_price on a cell of a string column (None stays None)
parse_price(value) ==
  IF IsNull(value) THEN Null
  ELSE LET cleaned == keep_price_chars(remove_whitespace(str_strip(Val(value))))
       IN IF cleaned = <<>> THEN Null
          ELSE IF Contains(cleaned, ",") /\ Contains(cleaned, ".")
            THEN python_float(str_replace(
                   IF str_find(cleaned, ",") > str_find(cleaned, ".")
                     THEN str_replace(cleaned, ".", <<>>) ELSE cleaned,
                   ",", <<".">>))
          ELSE IF Contains(cleaned, ",")
            THEN python_float(str_replace(cleaned, ",", <<".">>))
          ELSE python_float(cleaned)

\* ---- the tables transform_price is run on ----
\* longest enumerated price text
MaxPriceLen == 5
PriceAlphabet == {"1", "5", ",", ".", " ", "$"}
PriceTexts == UNION {[1..k -> PriceAlphabet] : k \in 0..MaxPriceLen}

\* the price texts of the tests and of the documentation
Text_R_10_99 == <<"R", "$", " ", "1", "0", ",", "9", "9">>
Text_12_50 == <<"1", "2", ".", "5", "0">>
Text_1_234_56_Comma == <<"1", ".", "2", "3", "4", ",", "5", "6">>
Text_1_234_56_Period == <<"1", ",", "2", "3", "4", ".", "5", "6">>

PriceTable(cells) ==
  DataFrame(<<PRICE_COLUMN_NAME>>, (PRICE_COLUMN_NAME :> "Utf8"),
            [i \in 1..Len(cells) |-> (PRICE_COLUMN_NAME :> cells[i])])

PriceInputTables ==
  {PriceTable(<<<<s>>>>) : s \in PriceTexts}
    \cup {PriceTable(<<<<Text_R_10_99>>, <<Text_12_50>>>>),
          PriceTable(<<<<Text_1_234_56_Comma>>, <<Text_1_234_56_Period>>>>),
          PriceTable(<<Null, <<Text_12_50>>>>),
          PriceTable(<<>>),
          DataFrame(<<"title">>, ("title" :> "Utf8"), <<("title" :> <<"a">>)>>)}

\* a transformer about to run transform_price on a table it has loaded, or
\* on no table at all
PriceInit ==
  /\ \/ \E t \in PriceInputTables :
          transformer = [NewTransformer([exists |-> TRUE, table |-> t], 2) EXCEPT
                           !.df = <<t>>, !.pc = "transform_price"]
     \/ transformer = [NewTransformer([exists |-> FALSE, table |-> DataFrame(<<>>, <<>>, <<>>)], 2)
                         EXCEPT !.pc = "transform_price"]
  /\ runner = Idle
  /\ cleaner = Idle
  /\ fe = Idle
  /\ eda = Idle
  /\ api = Idle
  /\ scraper = Idle

\* transform_price
TransformPrice ==
  /\ transformer.pc = "transform_price"
  /\ IF IsNull(transformer.df)
       THEN transformer' = TransformerFail(transformer, "transform_price", "ValueError")
       ELSE LET df == transformer.df[1]
            IN IF ~HasColumn(df, PRICE_COLUMN_NAME)
                 THEN transformer' = [transformer EXCEPT
                        !.price_report = <<[status |-> "missing_price_column"]>>,
                        !.pc = "save_processed"]
                 ELSE LET parsed == [i \in 1..Height(df) |->
                                       parse_price(df.rows[i][PRICE_COLUMN_NAME])]
                          df_proc == WithColumn(df, PRICE_COLUMN_NAME, "Float64", parsed)
                          after_null == NullCount(df_proc, PRICE_COLUMN_NAME)
                      IN transformer' = [transformer EXCEPT
                           !.df = <<df_proc>>,
                           !.price_report = <<[column |-> PRICE_COLUMN_NAME,
                                               rows |-> Height(df_proc),
                                               nulls_after |-> after_null,
                                               converted_values |-> Height(df_proc) - after_null]>>,
                           !.pc = "save_processed"]
  /\ UNCHANGED <<runner, cleaner, fe, eda, api, scraper>>

PriceNext == TransformPrice

SpecPrice == PriceInit /\ [][PriceNext]_vars

(***************************************************************************)
(* The feature-engineering test table                                      *)
(* (tests/unit_tests/test_feature_engineering.py), its rows in every order *)
(***************************************************************************)
FixtureRows ==
  <<[price |-> <<10>>, title_len |-> <<5>>, category |-> <<"a">>],
    [price |-> <<11>>, title_len |-> <<6>>, category |-> <<"b">>],
    [price |-> <<12>>, title_len |-> <<7>>, category |-> <<"a">>],
    [price |-> <<13>>, title_len |-> <<8>>, category |-> <<"b">>],
    [price |-> <<14>>, title_len |-> <<9>>, category |-> <<"a">>],
    [price |-> <<1000>>, title_len |-> <<10>>, category |-> <<"b">>]>>

FixtureFiles ==
  {DataFrame(<<"price", "title_len", "category">>,
             [c \in {"price", "title_len", "category"} |->
                IF c = "category" THEN "Utf8" ELSE "Int64"],
             [i \in 1..Len(FixtureRows) |-> FixtureRows[order[i]]]) :
     order \in {f \in [1..Len(FixtureRows) -> 1..Len(FixtureRows)] : Injective(f)}}

FixtureInit ==
  /\ \E t \in FixtureFiles :
       fe = NewFeatureEngineer([exists |-> TRUE, table |-> t], FEATURE_SELECTION_K)
  /\ runner = Idle
  /\ cleaner = Idle
  /\ transformer = Idle
  /\ eda = Idle
  /\ api = Idle
  /\ scraper = Idle

SpecFixture == FixtureInit /\ [][FENext]_vars

(***************************************************************************)
(* FeatureEngineer.feature_selection called on feature tables of its own   *)
(* (under run() a price column that is not numeric stops the run in        *)
(* scale_price, before the selection is reached)                           *)
(***************************************************************************)
\* largest number of rows of a partition handed to feature_selection
MaxSelectionRows == 2

SelectionTables(n) ==
  {read_csv(t) : t \in PriceFiles(n) \cup StockFiles(n) \cup StockOnlyFiles(n)}

SelectionInit ==
  /\ \E n \in 1..MaxSelectionRows, m \in 0..MaxSelectionRows :
       \E train \in SelectionTables(n), test \in SelectionTables(m) :
         /\ train.columns = test.columns
         /\ fe = [NewFeatureEngineer([exists |-> FALSE, table |-> DataFrame(<<>>, <<>>, <<>>)],
                                     FEATURE_SELECTION_K)
                    EXCEPT !.features_train = <<train>>, !.features_test = <<test>>,
                           !.pc = "feature_selection"]
  /\ runner = Idle
  /\ cleaner = Idle
  /\ transformer = Idle
  /\ eda = Idle
  /\ api = Idle
  /\ scraper = Idle

SelectionNext ==
  \/ FeatureSelection
  \/ SaveFeatures

SpecSelection == SelectionInit /\ [][SelectionNext]_vars

(***************************************************************************)
(* TextProcessor.normalize_text (scripts/utils.py) and                     *)
(* DataTransformer.normalize_text_columns (scripts/transformation.py)      *)
(* A text is a sequence of one-character strings.                          *)
(***************************************************************************)
TEXT_NORMALIZE_COLUMNS == <<"title", "category">>

LowerChars == {"a", "b", "c", "d", "e", "f", "g", "h", "i", "j", "k", "l", "m",
               "n", "o", "p", "q", "r", "s", "t", "u", "v", "w", "x", "y", "z"}

\* str.lower() on one character, for the upper-case letters the inputs use
char_lower(c) ==
  CASE c = "A" -> "a" [] c = "B" -> "b" [] c = "D" -> "d" [] c = "F" -> "f"
    [] c = "S" -> "s" [] OTHER -> c

str_lower(s) == [i \in 1..Len(s) |-> char_lower(s[i])]

\* re.sub(r"[^a-z0-9]+", "_", s): every maximal run of other characters
\* becomes one underscore
RECURSIVE sub_non_alnum(_)
sub_non_alnum(s) ==
  IF s = <<>> THEN <<>>
  ELSE IF Head(s) \in LowerChars \cup DigitChars THEN <<Head(s)>> \o sub_non_alnum(Tail(s))
  ELSE IF Len(s) > 1 /\ s[2] \notin LowerChars \cup DigitChars THEN sub_non_alnum(Tail(s))
  ELSE <<"_">> \o sub_non_alnum(Tail(s))

\* str.strip("_")
RECURSIVE strip_underscores(_)
strip_underscores(s) ==
  IF s = <<>> THEN s
  ELSE IF Head(s) = "_" THEN strip_underscores(Tail(s))
  ELSE IF s[Len(s)] = "_" THEN strip_underscores(SubSeq(s, 1, Len(s) - 1))
  ELSE s

\* re.sub(r"__+", "_", s)
RECURSIVE sub_underscore_runs(_)
sub_underscore_runs(s) ==
  IF s = <<>> THEN <<>>
  ELSE IF Head(s) = "_" /\ Len(s) > 1 /\ s[2] = "_" THEN sub_underscore_runs(Tail(s))
  ELSE <<Head(s)>> \o sub_underscore_runs(Tail(s))

\* normalize_text without the strip("_")
normalize_text_NoStrip(text) ==
  IF text = <<>> THEN <<>>
  ELSE sub_underscore_runs(sub_non_alnum(str_lower(text)))

\* TextProcessor.normalize_text on a str ("" for the empty text)
normalize_text(text) ==
  IF text = <<>> THEN <<>>
  ELSE sub_underscore_runs(strip_underscores(sub_non_alnum(str_lower(text))))

\* ---- the tables normalize_text_columns is run on ----
\* longest enumerated text
MaxTextLen == 4
TextAlphabet == {"a", "B", "1", " ", "_", "+"}
Texts == UNION {[1..k -> TextAlphabet] : k \in 0..MaxTextLen}

\* the texts of the transformation test
Text_Some_Book == <<"S", "o", "m", "e", " ", "B", "o", "o", "k">>
Text_Another_Book == <<"A", "n", "o", "t", "h", "e", "r", "+", "B", "o", "o", "k">>
Text_Sci_Fi == <<"S", "c", "i", " ", "F", "i">>
Text_Drama_Suspense ==
  <<"D", "r", "a", "m", "a", " ", "&", " ", "S", "u", "s", "p", "e", "n", "s", "e">>

TextInputTables ==
  {DataFrame(<<"title">>, ("title" :> "Utf8"), <<("title" :> <<s>>)>>) : s \in Texts}
    \cup {DataFrame(<<"title", "category">>, [c \in {"title", "category"} |-> "Utf8"],
                    <<[title |-> <<Text_Some_Book>>, category |-> <<Text_Sci_Fi>>],
                      [title |-> <<Text_Another_Book>>, category |-> <<Text_Drama_Suspense>>],
                      [title |-> Null, category |-> <<Text_Sci_Fi>>]>>),
          DataFrame(<<"category">>, ("category" :> "Utf8"), <<>>)}

\* a transformer about to run normalize_text_columns on a table it has
\* loaded, or on no table at all
TextInit ==
  /\ \/ \E t \in TextInputTables :
          transformer = [NewTransformer([exists |-> TRUE, table |-> t], 2) EXCEPT
                           !.df = <<t>>, !.pc = "normalize_text_columns"]
     \/ transformer = [NewTransformer([exists |-> FALSE, table |-> DataFrame(<<>>, <<>>, <<>>)], 2)
                         EXCEPT !.pc = "normalize_text_columns"]
  /\ runner = Idle
  /\ cleaner = Idle
  /\ fe = Idle
  /\ eda = Idle
  /\ api = Idle
  /\ scraper = Idle

\* the loop of normalize_text_columns over TEXT_NORMALIZE_COLUMNS;
\* map_elements leaves a null cell null
RECURSIVE normalize_columns_loop(_, _, _)
normalize_columns_loop(cols, df_proc, report) ==
  IF cols = <<>> THEN [df |-> df_proc, report |-> report]
  ELSE LET col == Head(cols)
       IN IF ~HasColumn(df_proc, col)
            THEN normalize_columns_loop(Tail(cols), df_proc,
                   Append(report, [column |-> col, status |-> "missing"]))
            ELSE normalize_columns_loop(Tail(cols),
                   WithColumn(df_proc, col, "Utf8",
                     [i \in 1..Height(df_proc) |->
                        IF IsNull(df_proc.rows[i][col]) THEN Null
                        ELSE <<normalize_text(Val(df_proc.rows[i][col]))>>]),
                   Append(report, [column |-> col, status |-> "normalized"]))

\* normalize_text_columns
NormalizeTextColumns ==
  /\ transformer.pc = "normalize_text_columns"
  /\ transformer' =
       IF IsNull(transformer.df)
         THEN TransformerFail(transformer, "normalize_text_columns", "ValueError")
         ELSE LET r == normalize_columns_loop(TEXT_NORMALIZE_COLUMNS, transformer.df[1], <<>>)
              IN [transformer EXCEPT !.df = <<r.df>>, !.text_report = <<r.report>>,
                                     !.pc = "transform_price"]
  /\ UNCHANGED <<runner, cleaner, fe, eda, api, scraper>>

TextNext == NormalizeTextColumns

SpecText == TextInit /\ [][TextNext]_vars

(***************************************************************************)
(* ExploratoryDataAnalysis.correlations  (scripts/exploratory.py), with    *)
(* the float64 sums, products and quotients numpy computes for it.  A      *)
(* numeric cell holds the decimal numeral of the CSV file as [num, scale]. *)
(***************************************************************************)
Front(s) == SubSeq(s, 1, Len(s) - 1)

\* a + b for binary numerals of equal length, with carry in
RECURSIVE AddBits(_, _, _)
AddBits(a, b, carry) ==
  IF a = <<>> THEN NatBits(carry)
  ELSE LET t == a[Len(a)] + b[Len(b)] + carry
       IN IF t >= 2 THEN Append(AddBits(Front(a), Front(b), 1), t - 2)
          ELSE Append(AddBits(Front(a), Front(b), 0), t)

\* numerals are added, multiplied and divided ChunkBits bits at a time
ChunkBits == 15

LastBits(a, k) == SubSeq(a, Len(a) - k + 1, Len(a))

ButLastBits(a, k) == SubSeq(a, 1, Len(a) - k)

\* a + b for binary numerals of equal length, with carry in, low chunk first
RECURSIVE AddChunks(_, _, _)
AddChunks(a, b, carry) ==
  IF Len(a) <= ChunkBits THEN AddBits(a, b, carry)
  ELSE LET low == AddBits(LastBits(a, ChunkBits), LastBits(b, ChunkBits), carry)
       IN IF Len(low) > ChunkBits
            THEN AddChunks(ButLastBits(a, ChunkBits), ButLastBits(b, ChunkBits), 1)
                   \o LastBits(low, ChunkBits)
            ELSE AddChunks(ButLastBits(a, ChunkBits), ButLastBits(b, ChunkBits), 0) \o low

\* a + b for binary numerals of any length
AddNumerals(a, b) ==
  LET n == IF Len(a) >= Len(b) THEN Len(a) ELSE Len(b)
  IN AddChunks(Zeros(n - Len(a)) \o a, Zeros(n - Len(b)) \o b, 0)

\* a * b for binary numerals: a times each chunk of b, shifted and added
RECURSIVE MulNumerals(_, _)
MulNumerals(a, b) ==
  IF Len(b) <= ChunkBits THEN MulBits(a, BitsToNat(b), 0)
  ELSE AddNumerals(MulNumerals(a, ButLastBits(b, ChunkBits)) \o Zeros(ChunkBits),
                   MulBits(a, BitsToNat(LastBits(b, ChunkBits)), 0))

\* -f
FNeg(f) == IF f = FZero THEN FZero ELSE [f EXCEPT !.sign = 1 - @]

\* |a| + |b|
FAddAbs(a, b) ==
  LET e == Min2(a.exp, b.exp)
  IN RoundNearestEven(0, AddNumerals(a.bits \o Zeros(a.exp - e), b.bits \o Zeros(b.exp - e)),
                      e, FALSE)

\* a + b
FAdd(a, b) ==
  IF a = FZero THEN b
  ELSE IF b = FZero THEN a
  ELSE IF a.sign = b.sign THEN [FAddAbs(a, b) EXCEPT !.sign = a.sign]
  ELSE IF a.sign = 0 THEN FSub(a, b)
  ELSE FSub(b, a)

\* a * b
FMul(a, b) ==
  RoundNearestEven((a.sign + b.sign) % 2, MulNumerals(a.bits, b.bits), a.exp + b.exp, FALSE)

RECURSIVE Pow2(_)
Pow2(k) == IF k = 0 THEN 1 ELSE 2 * Pow2(k - 1)

\* the quotient and remainder of a binary numeral by n, 1 <= n < 2^ChunkBits
RECURSIVE LongDivide(_, _)
LongDivide(bits, n) ==
  IF bits = <<>> THEN [bits |-> <<>>, rem |-> 0]
  ELSE LET k == ((Len(bits) - 1) % ChunkBits) + 1
           prev == LongDivide(ButLastBits(bits, k), n)
           d == prev.rem * Pow2(k) + BitsToNat(LastBits(bits, k))
           q == NatBits(d \div n)
       IN [bits |-> prev.bits \o Zeros(k - Len(q)) \o q, rem |-> d % n]

\* f / float64(n) for a natural number n >= 1
FDivNat(f, n) ==
  LET extra == MantissaBits + 2 + Len(NatBits(n))
      q == LongDivide(f.bits \o Zeros(extra), n)
  IN RoundNearestEven(f.sign, q.bits, f.exp - extra, q.rem # 0)

RECURSIVE Pow10(_)
Pow10(k) == IF k = 0 THEN 1 ELSE 10 * Pow10(k - 1)

\* Series.to_numpy() on one non-null cell: the float64 nearest to the
\* decimal numeral
ToFloat(dec) == FDiv(dec.num, Pow10(dec.scale))

\* np.add.reduce over a short array: left to right
RECURSIVE np_sum(_)
np_sum(v) == IF v = <<>> THEN FZero ELSE FAdd(np_sum(Front(v)), v[Len(v)])

\* arr - arr.mean(), the mean being sum / n
Deviations(v) ==
  LET mean == FDivNat(np_sum(v), Len(v))
  IN [i \in 1..Len(v) |-> FAdd(v[i], FNeg(mean))]

\* np.nanstd(v) == 0 for an array without NaN: the standard deviation is
\* sqrt(sum((v - mean)^2) / n), zero exactly when the sum of squares is
nanstd_is_zero(v) ==
  LET d == Deviations(v)
  IN np_sum([i \in 1..Len(v) |-> FMul(d[i], d[i])]) = FZero

\* np.corrcoef(x, y)[0, 1] for arrays of nonzero standard deviation: the
\* covariance dot(x - mean, y - mean) / (n - 1) divided by both standard
\* deviations.  The model keeps what the quotient's sign and zero test
\* give: "0.0" when the dot product is zero, else "positive" or "negative".
corrcoef(x, y) ==
  LET dx == Deviations(x)
      dy == Deviations(y)
      dot == np_sum([i \in 1..Len(x) |-> FMul(dx[i], dy[i])])
  IN IF dot = FZero THEN "0.0" ELSE IF dot.sign = 0 THEN "positive" ELSE "negative"

\* the row positions selected by ~np.isnan(v1) & ~np.isnan(v2) (a null of
\* a numeric column becomes NaN in to_numpy)
RECURSIVE MaskPositions(_, _, _)
MaskPositions(c1, c2, i) ==
  IF i > Len(c1) THEN <<>>
  ELSE IF ~IsNull(c1[i]) /\ ~IsNull(c2[i]) THEN <<i>> \o MaskPositions(c1, c2, i + 1)
  ELSE MaskPositions(c1, c2, i + 1)

\* the correlation cell of one column pair: None under two joint
\* observations, 0.0 when either standard deviation is zero
pair_correlation(c1, c2) ==
  LET mask == MaskPositions(c1, c2, 1)
      v1 == [k \in 1..Len(mask) |-> ToFloat(Val(c1[mask[k]]))]
      v2 == [k \in 1..Len(mask) |-> ToFloat(Val(c2[mask[k]]))]
  IN IF Len(mask) < 2 THEN Null
     ELSE IF nanstd_is_zero(v1) \/ nanstd_is_zero(v2) THEN <<"0.0">>
     ELSE <<corrcoef(v1, v2)>>

NumericColumns(df) == SelectSeq(df.columns, LAMBDA c : df.dtypes[c] \in NUMERIC_DTYPES)

\* the pairs (i, j), i < j, in the order of the two nested loops
RECURSIVE PairsFrom(_, _, _)
PairsFrom(n, i, j) ==
  IF i > n THEN <<>>
  ELSE IF j > n THEN PairsFrom(n, i + 1, i + 2)
  ELSE <<<<i, j>>>> \o PairsFrom(n, i, j + 1)

\* correlations(df).  With the target column in the table (of whatever
\* dtype) every other numeric column is correlated with it; np.isnan on the
\* object array of a string target raises TypeError.
correlations(df) ==
  LET numeric_cols_all == NumericColumns(df)
      other_numeric == SelectSeq(numeric_cols_all, LAMBDA c : c # FEATURE_SELECTION_TARGET)
      pairs == PairsFrom(Len(numeric_cols_all), 1, 2)
  IN IF HasColumn(df, FEATURE_SELECTION_TARGET)
       THEN IF other_numeric = <<>>
              THEN [rows |-> <<[status |-> "no_numeric_columns_except_target"]>>, error |-> None]
            ELSE IF NullCount(df, FEATURE_SELECTION_TARGET) = Height(df)
              THEN [rows |-> <<[status |-> "target_all_null"]>>, error |-> None]
            ELSE IF df.dtypes[FEATURE_SELECTION_TARGET] \notin NUMERIC_DTYPES
              THEN [rows |-> <<>>, error |-> "TypeError"]
            ELSE [rows |-> [k \in 1..Len(other_numeric) |->
                     [feature |-> other_numeric[k],
                      correlation_with_target |->
                        pair_correlation(Column(df, other_numeric[k]),
                                         Column(df, FEATURE_SELECTION_TARGET))]],
                  error |-> None]
     ELSE IF Len(numeric_cols_all) < 2
       THEN [rows |-> <<[status |-> "insufficient_numeric_columns",
                         numeric_count |-> Len(numeric_cols_all)]>>, error |-> None]
     ELSE [rows |-> [k \in 1..Len(pairs) |->
              [feature_a |-> numeric_cols_all[pairs[k][1]],
               feature_b |-> numeric_cols_all[pairs[k][2]],
               pearson_corr |-> pair_correlation(Column(df, numeric_cols_all[pairs[k][1]]),
                                                 Column(df, numeric_cols_all[pairs[k][2]]))]],
           error |-> None]

\* rows of the features tables handed to correlations
MaxEdaRows == 3

\* the cells of a float column: null or 0.1; of an integer column: null, 0
\* or 3; of a text column: null or a label
FloatCells == {Null, <<Decimal(1, 1)>>}

IntCells == {Null, <<Decimal(0, 0)>>, <<Decimal(3, 0)>>}

TextCells == {Null, <<"a">>}

\* pl.read_csv infers the dtype; a column without a value is read as text
InferDtype(cells, dtype) == IF \A i \in 1..Len(cells) : IsNull(cells[i]) THEN "Utf8" ELSE dtype

\* the columns read from a file of n rows, as [cells, dtype]
SeriesOf(cellset, dtype, n) ==
  {[cells |-> c, dtype |-> InferDtype(c, dtype)] : c \in [1..n -> cellset]}

\* the columns of dtype kind that a file of n rows can hold
EdaSeries(kind, n) ==
  IF kind = "Float64" THEN SeriesOf(FloatCells, kind, n)
  ELSE IF kind = "Int64" THEN SeriesOf(IntCells, kind, n)
  ELSE SeriesOf(TextCells, kind, n)

EdaKinds == {"Float64", "Int64", "Utf8"}

\* a stock column that alternates 0 and 3
StockSeries(n) ==
  LET c == [i \in 1..n |-> <<Decimal(3 * (i % 2), 0)>>]
  IN [cells |-> c, dtype |-> InferDtype(c, "Int64")]

EdaTable(names, series) ==
  DataFrame(names, [c \in Range(names) |-> series[CHOOSE k \in 1..Len(names) : names[k] = c].dtype],
            [i \in 1..Len(series[1].cells) |->
               [c \in Range(names) |->
                  series[CHOOSE k \in 1..Len(names) : names[k] = c].cells[i]]])

NewEda(table) == [pc |-> "correlations", features |-> table, rows |-> <<>>, error |-> None]

\* features files: the target with another column, two columns without
\* the target, the target alone, and three columns without the target
EdaInit ==
  /\ \E n \in 0..MaxEdaRows, kp \in EdaKinds, kr \in EdaKinds :
       \E p \in EdaSeries(kp, n), r \in EdaSeries(kr, n) :
         \/ eda = NewEda(EdaTable(<<"price", "rating">>, <<p, r>>))
         \/ eda = NewEda(EdaTable(<<"title_len", "rating">>, <<p, r>>))
         \/ eda = NewEda(EdaTable(<<"price">>, <<p>>))
         \/ kp # "Utf8" /\ kr # "Utf8"
              /\ eda = NewEda(EdaTable(<<"title_len", "rating", "stock">>, <<p, r, StockSeries(n)>>))
  /\ runner = Idle
  /\ cleaner = Idle
  /\ transformer = Idle
  /\ fe = Idle
  /\ api = Idle
  /\ scraper = Idle

\* corr_df = self.correlations(self.features)
Correlations ==
  /\ eda.pc = "correlations"
  /\ LET r == correlations(eda.features)
     IN eda' = [eda EXCEPT !.pc = "done", !.rows = r.rows, !.error = r.error]
  /\ UNCHANGED <<runner, cleaner, transformer, fe, api, scraper>>

EdaNext == Correlations

SpecEda == EdaInit /\ [][EdaNext]_vars

(***************************************************************************)
(* Authentication API  (src/app.py, src/routes/private, src/domain/auth,   *)
(* src/domain/user).  A JWT is its payload with the key that signed it; the *)
(* clock counts whole seconds, as int(timestamp()) does.                   *)
(***************************************************************************)
\* InMemoryUserRepository.table
UserTable ==
  <<[id |-> 1, username |-> "mlet", password |-> "mlet", role |-> "admin"],
    [id |-> 2, username |-> "user", password |-> "user", role |-> "customer"],
    [id |-> 3, username |-> "ds", password |-> "ds", role |-> "ds"],
    [id |-> 4, username |-> "smoke", password |-> "smoke", role |-> "test"]>>

User(row) == [id |-> row.id, username |-> row.username, role |-> row.role]

get_user_by_username_and_password(username, password) ==
  LET user_found == SelectSeq(UserTable, LAMBDA u : u.username = username /\ u.password = password)
  IN IF Len(user_found) = 0 THEN Null ELSE <<User(user_found[1])>>

get_user_by_id(user_id) ==
  LET user_found == SelectSeq(UserTable, LAMBDA u : u.id = user_id)
  IN IF Len(user_found) = 0 THEN Null ELSE <<User(user_found[1])>>

SECRET_KEY == "JWT_SECRET"

\* jwt.encode(payload, SECRET_KEY, HS256): the same payload gives the same
\* token, another payload or key another token
encode_jwt(payload) == [payload |-> payload, signature |-> SECRET_KEY]

\* jwt.decode(token, SECRET_KEY, algorithms=[HS256]) succeeds: the
\* signature is checked; the payload has no registered "exp" claim, and
\* PyJWT does not look at a claim called "expires"
decode_succeeds(token) == token.signature = SECRET_KEY

\* expiration_min of the access token (minutes) and of the refresh token
\* (handed to timedelta(hours=...))
ACCESS_EXPIRATION_MIN == 3

REFRESH_EXPIRATION_HOURS == 6

SecondsPerMinute == 60

\* a slip: the expiry counted from the epoch, not from now
generate_access_token_FromEpoch(user, expiration_min, now) ==
  encode_jwt([userId |-> user.id, username |-> user.username, role |-> user.role,
              expires |-> expiration_min * SecondsPerMinute])

generate_access_token(user, expiration_min, now) ==
  encode_jwt([userId |-> user.id, username |-> user.username, role |-> user.role,
              expires |-> now + expiration_min * SecondsPerMinute])

generate_refresh_token(user, expiration_min, now) ==
  encode_jwt([userId |-> user.id,
              expires |-> now + expiration_min * SecondsPerMinute * SecondsPerMinute])

\* InMemoryAuthRepository: the class-level list TOKENS
memory_set_token(tokens, user_id, access_token, refresh_token) ==
  Append(tokens, [user_id |-> user_id, access_token |-> access_token,
                  refresh_token |-> refresh_token])

memory_update_tokens(tokens, user_id, access_token) ==
  [i \in 1..Len(tokens) |->
     IF tokens[i].user_id = user_id THEN [tokens[i] EXCEPT !.access_token = access_token]
     ELSE tokens[i]]

\* DBAuthRepository on a reachable database: table jwt_tokens, updated
\* when the user has a row and extended otherwise
db_set_token(tokens, user_id, access_token, refresh_token) ==
  IF \E i \in 1..Len(tokens) : tokens[i].user_id = user_id
    THEN [i \in 1..Len(tokens) |->
            IF tokens[i].user_id = user_id
              THEN [tokens[i] EXCEPT !.access_token = access_token,
                                     !.refresh_token = refresh_token]
              ELSE tokens[i]]
    ELSE Append(tokens, [user_id |-> user_id, access_token |-> access_token,
                         refresh_token |-> refresh_token])

\* both repositories: the first record with the refresh token, or None (Null)
get_token_record_by_refresh_token(tokens, refresh_token) ==
  LET token_record_found == SelectSeq(tokens, LAMBDA t : t.refresh_token = refresh_token)
  IN IF Len(token_record_found) = 0 THEN Null ELSE <<token_record_found[1]>>

set_token(use_database, tokens, user_id, access_token, refresh_token) ==
  IF use_database THEN db_set_token(tokens, user_id, access_token, refresh_token)
  ELSE memory_set_token(tokens, user_id, access_token, refresh_token)

Response(status_code, body) == [status_code |-> status_code, body |-> body]

\* the body of the two protected routes
Granted == [message |-> "You have access to this resource!"]

Refused(status_code, detail) == Response(status_code, [detail |-> detail])

\* AuthService.generate_access_and_refresh_token: [response, tokens]
generate_access_and_refresh_token(use_database, tokens, username, password, now) ==
  LET found == get_user_by_username_and_password(username, password)
      user == Val(found)
      access_token == generate_access_token(user, ACCESS_EXPIRATION_MIN, now)
      refresh_token == generate_refresh_token(user, REFRESH_EXPIRATION_HOURS, now)
  IN IF IsNull(found)
       THEN [response |-> Refused(403, "you are not authorized to perform login."),
             tokens |-> tokens]
       ELSE [response |-> Response(200, [accessToken |-> access_token,
                                         refreshToken |-> refresh_token]),
             tokens |-> set_token(use_database, tokens, user.id, access_token, refresh_token)]

\* AuthService.renovate_access_token: [response, tokens].  The refresh
\* token is looked up in the repository and never decoded.
renovate_access_token(tokens, refresh_token, now) ==
  LET token_record == get_token_record_by_refresh_token(tokens, refresh_token)
      user == Val(get_user_by_id(Val(token_record).user_id))
      new_access_token == generate_access_token(user, ACCESS_EXPIRATION_MIN, now)
  IN IF IsNull(token_record)
       THEN [response |-> Refused(401, "you do not have permission to refresh irformed token"),
             tokens |-> tokens]
       ELSE [response |-> Response(200, [accessToken |-> new_access_token,
                                         refreshToken |-> refresh_token]),
             tokens |-> memory_update_tokens(tokens, user.id, new_access_token)]

\* JWTUtils.validate_token: the status it raises, or 200
validate_token(token) == IF decode_succeeds(token) THEN 200 ELSE 403

\* a slip: every role passes
admin_role_AnyRole(token) ==
  IF "role" \notin DOMAIN token.payload THEN 500 ELSE 200

\* JWTUtils.admin_role after validate_token: a payload without "role"
\* raises KeyError (500)
admin_role(token) ==
  IF "role" \notin DOMAIN token.payload THEN 500
  ELSE IF token.payload.role # "admin" THEN 401
  ELSE 200

\* requests and waits of one behaviour
MaxRequests == 3

MaxWaits == 2

\* a token signed with another key
ForgedToken ==
  [payload |-> [userId |-> 1, username |-> "mlet", role |-> "admin", expires |-> 0],
   signature |-> "another key"]

\* username/password pairs sent to /auth/login
LoginCredentials ==
  {<<"smoke", "smoke">>, <<"mlet", "mlet">>, <<"smoke", "mlet">>,
   <<"unkown user", "unknown password">>}

\* the waits between requests: a second, and just over the lifetime of an
\* access token and of a refresh token
WaitSeconds ==
  {1, ACCESS_EXPIRATION_MIN * SecondsPerMinute + 1,
   REFRESH_EXPIRATION_HOURS * SecondsPerMinute * SecondsPerMinute + 1}

NewApi(use_database) ==
  [pc |-> "serving", use_database |-> use_database, now |-> 0, waits |-> 0, requests |-> 0,
   TOKENS |-> <<>>, issued |-> <<>>, request |-> [route |-> None], response |-> Response(0, [detail |-> None])]

\* the tokens a client holds: those of its logins and refreshes, and a
\* forged one
HeldTokens ==
  {api.issued[i].accessToken : i \in 1..Len(api.issued)}
    \cup {api.issued[i].refreshToken : i \in 1..Len(api.issued)}
    \cup {ForgedToken}

ApiInit ==
  /\ \E use_database \in BOOLEAN : api = NewApi(use_database)
  /\ runner = Idle
  /\ cleaner = Idle
  /\ transformer = Idle
  /\ fe = Idle
  /\ eda = Idle
  /\ scraper = Idle

Serving == api.pc = "serving" /\ api.requests < MaxRequests

\* POST /auth/login
PostLogin ==
  /\ Serving
  /\ \E c \in LoginCredentials :
       LET r == generate_access_and_refresh_token(api.use_database, api.TOKENS, c[1], c[2], api.now)
       IN api' = [api EXCEPT !.requests = @ + 1, !.TOKENS = r.tokens,
                             !.request = [route |-> "/auth/login", username |-> c[1],
                                          password |-> c[2]],
                             !.response = r.response,
                             !.issued = IF r.response.status_code = 200
                                          THEN Append(@, [route |-> "/auth/login", at |-> api.now,
                                                          accessToken |-> r.response.body.accessToken,
                                                          refreshToken |-> r.response.body.refreshToken])
                                          ELSE @]
  /\ UNCHANGED <<runner, cleaner, transformer, fe, eda, scraper>>

\* POST /auth/refresh
PostRefresh ==
  /\ Serving
  /\ \E token \in HeldTokens :
       LET r == renovate_access_token(api.TOKENS, token, api.now)
       IN api' = [api EXCEPT !.requests = @ + 1, !.TOKENS = r.tokens,
                             !.request = [route |-> "/auth/refresh", token |-> token],
                             !.response = r.response,
                             !.issued = IF r.response.status_code = 200
                                          THEN Append(@, [route |-> "/auth/refresh", at |-> api.now,
                                                          accessToken |-> r.response.body.accessToken,
                                                          refreshToken |-> r.response.body.refreshToken])
                                          ELSE @]
  /\ UNCHANGED <<runner, cleaner, transformer, fe, eda, scraper>>

\* GET /api/private
GetPrivate ==
  /\ Serving
  /\ \E token \in HeldTokens :
       api' = [api EXCEPT !.requests = @ + 1,
                          !.request = [route |-> "/api/private", token |-> token],
                          !.response = IF validate_token(token) # 200
                                         THEN Refused(validate_token(token), "invalid token")
                                         ELSE Response(200, Granted)]
  /\ UNCHANGED <<runner, cleaner, transformer, fe, eda, scraper>>

\* GET /admin: validate_token, then admin_role
GetAdmin ==
  /\ Serving
  /\ \E token \in HeldTokens :
       api' = [api EXCEPT !.requests = @ + 1,
                          !.request = [route |-> "/admin", token |-> token],
                          !.response = IF validate_token(token) # 200
                                         THEN Refused(validate_token(token), "invalid token")
                                         ELSE IF admin_role(token) # 200
                                         THEN Refused(admin_role(token), "admin_role")
                                         ELSE Response(200, Granted)]
  /\ UNCHANGED <<runner, cleaner, transformer, fe, eda, scraper>>

\* time passes between two requests
Wait ==
  /\ api.pc = "serving"
  /\ api.waits < MaxWaits
  /\ api.requests < MaxRequests
  /\ \E d \in WaitSeconds : api' = [api EXCEPT !.now = @ + d, !.waits = @ + 1]
  /\ UNCHANGED <<runner, cleaner, transformer, fe, eda, scraper>>

ApiNext == PostLogin \/ PostRefresh \/ GetPrivate \/ GetAdmin \/ Wait

SpecApi == ApiInit /\ [][ApiNext]_vars

(***************************************************************************)
(* fetch_image_as_base64  (scripts/scraper_lib.py): one call, one step per *)
(* pass of the retry loop                                                   *)
(***************************************************************************)
\* the alphabet of base64.b64encode
Base64Alphabet ==
  <<"A", "B", "C", "D", "E", "F", "G", "H", "I", "J", "K", "L", "M", "N", "O", "P",
    "Q", "R", "S", "T", "U", "V", "W", "X", "Y", "Z", "a", "b", "c", "d", "e", "f",
    "g", "h", "i", "j", "k", "l", "m", "n", "o", "p", "q", "r", "s", "t", "u", "v",
    "w", "x", "y", "z", "0", "1", "2", "3", "4", "5", "6", "7", "8", "9", "+", "/">>

\* base64.b64encode(content).decode("utf-8") for a sequence of bytes: three
\* bytes give four characters, a last group of one or two bytes is padded
\* with "="
RECURSIVE b64encode(_)
b64encode(content) ==
  IF content = <<>> THEN <<>>
  ELSE IF Len(content) = 1
    THEN <<Base64Alphabet[content[1] \div 4 + 1], Base64Alphabet[(content[1] % 4) * 16 + 1],
           "=", "=">>
  ELSE IF Len(content) = 2
    THEN <<Base64Alphabet[content[1] \div 4 + 1],
           Base64Alphabet[(content[1] % 4) * 16 + content[2] \div 16 + 1],
           Base64Alphabet[(content[2] % 16) * 4 + 1], "=">>
  ELSE <<Base64Alphabet[content[1] \div 4 + 1],
         Base64Alphabet[(content[1] % 4) * 16 + content[2] \div 16 + 1],
         Base64Alphabet[(content[2] % 16) * 4 + content[3] \div 64 + 1],
         Base64Alphabet[(content[3] % 64) + 1]>>
         \o b64encode(SubSeq(content, 4, Len(content)))

\* the classes of requests.exceptions an attempt can raise, each with its
\* base classes
ExceptionBases ==
  [ReadTimeout |-> {"ReadTimeout", "Timeout", "RequestException"},
   ConnectTimeout |-> {"ConnectTimeout", "ConnectionError", "Timeout", "RequestException"},
   HTTPError |-> {"HTTPError", "RequestException"},
   ConnectionError |-> {"ConnectionError", "RequestException"},
   TooManyRedirects |-> {"TooManyRedirects", "RequestException"}]

\* a slip: the last clause catches ConnectionError only
ExceptClauses_NoCatchAll == <<"ReadTimeout", "ConnectTimeout", "HTTPError", "ConnectionError">>

\* the except clauses of the try statement, in order
ExceptClauses == <<"ReadTimeout", "ConnectTimeout", "HTTPError", "RequestException">>

\* the clause that handles the exception, or None when it propagates
RECURSIVE handling_clause(_, _)
handling_clause(exc, clauses) ==
  IF clauses = <<>> THEN None
  ELSE IF Head(clauses) \in ExceptionBases[exc] THEN Head(clauses)
  ELSE handling_clause(exc, Tail(clauses))

\* time.sleep(0.5 * 2 ** (attempt - 1)), in half seconds
sleep_half_seconds(attempt) == Pow2(attempt - 1)

\* max_attempts of a call: up to the default
MaxAttempts == 3

\* bytes of a response body
MaxContentLen == 3

ContentBytes == {77, 97, 110}

\* what session.get and raise_for_status give on one attempt
ContentsUpTo(n) == UNION {[1..k -> ContentBytes] : k \in 0..n}

NewFetch(image_url, max_attempts) ==
  [pc |-> "call", image_url |-> image_url, max_attempts |-> max_attempts, attempt |-> 0,
   outcomes |-> <<>>, sleeps |-> <<>>, result |-> Null, raised |-> None]

ScraperInit ==
  /\ \E image_url \in {"", "media/cache/2c/da/cover.jpg"}, max_attempts \in 0..MaxAttempts :
       scraper = NewFetch(image_url, max_attempts)
  /\ runner = Idle
  /\ cleaner = Idle
  /\ transformer = Idle
  /\ fe = Idle
  /\ eda = Idle
  /\ api = Idle

\* entry: an empty url returns at once; range(1, max_attempts + 1) may be
\* empty
CallFetch ==
  /\ scraper.pc = "call"
  /\ scraper' =
       IF scraper.image_url = "" THEN [scraper EXCEPT !.pc = "returned", !.result = <<"">>]
       ELSE IF scraper.max_attempts < 1 THEN [scraper EXCEPT !.pc = "give_up"]
       ELSE [scraper EXCEPT !.pc = "attempt", !.attempt = 1]
  /\ UNCHANGED <<runner, cleaner, transformer, fe, eda, api>>

\* the end of a pass that did not return: break on the HTTPError clause,
\* propagate what no clause handles, else sleep before another attempt
AfterException(s, exc) ==
  LET clause == handling_clause(exc, ExceptClauses)
      logged == [s EXCEPT !.outcomes = Append(@, [exception |-> exc])]
  IN IF clause = None THEN [logged EXCEPT !.pc = "raised", !.raised = exc]
     ELSE IF clause = "HTTPError" THEN [logged EXCEPT !.pc = "give_up"]
     ELSE IF s.attempt < s.max_attempts
       THEN [logged EXCEPT !.sleeps = Append(@, sleep_half_seconds(s.attempt)),
                           !.attempt = @ + 1]
     ELSE [logged EXCEPT !.pc = "give_up"]

\* one pass of the loop whose GET answers with a body
AttemptResponds ==
  /\ scraper.pc = "attempt"
  /\ \E content \in ContentsUpTo(MaxContentLen) :
       scraper' = [scraper EXCEPT !.pc = "returned",
                                  !.outcomes = Append(@, [content |-> content]),
                                  !.result = IF content = <<>> THEN <<"">>
                                             ELSE <<b64encode(content)>>]
  /\ UNCHANGED <<runner, cleaner, transformer, fe, eda, api>>

\* one pass of the loop whose GET or raise_for_status raises
AttemptRaises ==
  /\ scraper.pc = "attempt"
  /\ \E exc \in DOMAIN ExceptionBases : scraper' = AfterException(scraper, exc)
  /\ UNCHANGED <<runner, cleaner, transformer, fe, eda, api>>

\* after the loop: logger.exception and return ""
GiveUp ==
  /\ scraper.pc = "give_up"
  /\ scraper' = [scraper EXCEPT !.pc = "returned", !.result = <<"">>]
  /\ UNCHANGED <<runner, cleaner, transformer, fe, eda, api>>

ScraperNext == CallFetch \/ AttemptResponds \/ AttemptRaises \/ GiveUp

SpecScraper == ScraperInit /\ [][ScraperNext]_vars

\* the call runs on: a GET answers or times out, a sleep ends
SpecScraperLive == SpecScraper /\ WF_vars(ScraperNext)

(***************************************************************************)
(* FeatureEngineer with its stages called in any order, as a caller other  *)
(* than run() may do (the unit tests call single stages)                   *)
(***************************************************************************)
StageNames ==
  {"read_processed", "initial_split", "remove_outliers", "add_text_features", "scale_price",
   "encode_categoricals", "create_extra_features", "feature_selection", "save_features"}

\* rows of the processed files of this specification, and calls made out
\* of the order of run()
MaxCallRows == 2

MaxCalls == 2

CallsInit ==
  /\ \/ fe = [calls |-> 0] @@ NewFeatureEngineer([exists |-> FALSE,
                                                   table |-> DataFrame(<<>>, <<>>, <<>>)],
                                                  FEATURE_SELECTION_K)
     \/ \E n \in 0..MaxCallRows : \E t \in PriceFiles(n) \cup CategoryFiles(n) :
          fe = [calls |-> 0] @@ NewFeatureEngineer([exists |-> TRUE, table |-> t],
                                                  FEATURE_SELECTION_K)
  /\ runner = Idle
  /\ cleaner = Idle
  /\ transformer = Idle
  /\ eda = Idle
  /\ api = Idle
  /\ scraper = Idle

\* the caller picks the stage to call next, whatever the last call did (an
\* exception it caught included)
CallAnyStage ==
  /\ fe.pc \in StageNames \cup {"failed", "done"}
  /\ fe.calls < MaxCalls
  /\ \E stage \in StageNames \ {fe.pc} :
       fe' = [fe EXCEPT !.pc = stage, !.failed_in = None, !.error = None, !.calls = @ + 1]
  /\ UNCHANGED <<runner, cleaner, transformer, eda, api, scraper>>

CallsNext == FENext \/ CallAnyStage

SpecFECalls == CallsInit /\ [][CallsNext]_vars

(***************************************************************************)
(* PipelineRunner  (scripts/pipeline_runner.py)                            *)
(***************************************************************************)
\* the stages in the order run() goes through them
StageOrder == <<"data_cleaning", "data_transformation", "feature_engineering", "eda">>

\* exception classes a stage function raises (all subclasses of Exception)
StageErrors == {"FileNotFoundError", "ValueError", "ColumnNotFoundError", "ComputeError"}

\* largest rounded duration of a stage, in seconds
MaxDuration == 1

StepResult(name, status, duration_sec, artifact, error) ==
  [name |-> name, status |-> status, duration_sec |-> duration_sec,
   artifact |-> artifact, error |-> error]

\* the artifact_extractor of each stage applied to the stage's output
ArtifactOf(name) ==
  CASE name = "data_cleaning" -> "cleaned_books.csv"
    [] name = "data_transformation" -> "processed_books.csv"
    [] name = "feature_engineering" -> "train=features_train.csv,test=features_test.csv,full=features_full.csv"
    [] OTHER -> "cleaned_profile=eda_cleaned_profile.csv"

\* `except Exception`: the handler of _run_step catches every exception class
\* a stage raises
Catches(e) == e \in StageErrors

\* _run_step(name, func): outcome is "ok" when func() returns, otherwise the
\* class of the exception func() raised
run_step(r, name, outcome, dur) ==
  IF outcome = "ok"
    THEN [r EXCEPT !.calls = Append(@, name),
                   !.results = Append(@, StepResult(name, "success", dur, ArtifactOf(name), None))]
    ELSE IF Catches(outcome)
      THEN [r EXCEPT !.calls = Append(@, name),
                     !.results = Append(@, StepResult(name, "failed", dur, None, outcome))]
      ELSE [r EXCEPT !.calls = Append(@, name), !.pc = "escaped"]

\* a slip in the guard: only a failed predecessor stops the pipeline
PreviousOk_NotFailed(r) == r.results[Len(r.results)].status # "failed"

\* the guard `if self.results[-1].status == "success"` before stages 2..4
PreviousOk(r) == r.results[Len(r.results)].status = "success"

\* one stage block of run(): run the stage, or record it as skipped
StageBlock(r, name, outcome, dur) ==
  IF name = "data_cleaning" \/ PreviousOk(r)
    THEN run_step(r, name, outcome, dur)
    ELSE [r EXCEPT !.results = Append(@, StepResult(name, "skipped", 0, None, None))]

NextPc(r, name) ==
  IF r.pc = "escaped" THEN "escaped"
  ELSE CASE name = "data_cleaning" -> "data_transformation"
         [] name = "data_transformation" -> "feature_engineering"
         [] name = "feature_engineering" -> "eda"
         [] OTHER -> "report"

RunnerInit ==
  /\ runner = [pc |-> "data_cleaning", results |-> <<>>, calls |-> <<>>, report |-> <<>>]
  /\ cleaner = Idle
  /\ transformer = Idle
  /\ fe = Idle
  /\ eda = Idle
  /\ api = Idle
  /\ scraper = Idle

RunStage(name) ==
  /\ runner.pc = name
  /\ \E outcome \in {"ok"} \cup StageErrors, dur \in 0..MaxDuration :
       LET r == StageBlock(runner, name, outcome, dur)
       IN runner' = [r EXCEPT !.pc = NextPc(r, name)]
  /\ UNCHANGED <<cleaner, transformer, fe, eda, api, scraper>>

RunCleaning == RunStage("data_cleaning")

RunTransformation == RunStage("data_transformation")

RunFeatureEngineering == RunStage("feature_engineering")

RunEda == RunStage("eda")

\* the consolidated report written at the end of run(): one row per result
SaveReport ==
  /\ runner.pc = "report"
  /\ runner' = [runner EXCEPT !.pc = "done",
                  !.report = [i \in 1..Len(runner.results) |->
                                [step |-> runner.results[i].name,
                                 status |-> runner.results[i].status]]]
  /\ UNCHANGED <<cleaner, transformer, fe, eda, api, scraper>>

RunnerNext ==
  \/ RunCleaning
  \/ RunTransformation
  \/ RunFeatureEngineering
  \/ RunEda
  \/ SaveReport

SpecRunner == RunnerInit /\ [][RunnerNext]_vars

(***************************************************************************)
(* Claims                                                                  *)
(***************************************************************************)

StageIndex(name) == CHOOSE i \in 1..Len(StageOrder) : StageOrder[i] = name

\* C1: run() records exactly one result per stage, in the fixed order; a
\* stage function is called only if every earlier stage ended "success";
\* after a stage that did not succeed every later stage is "skipped" and not
\* called; no exception of a stage escapes run().
C1_StagesInOrderSkipAfterFailure ==
  LET res == runner.results
  IN /\ Len(res) <= Len(StageOrder)
     /\ \A i \in 1..Len(res) : res[i].name = StageOrder[i]
     /\ runner.pc \in {"report", "done"} => Len(res) = Len(StageOrder)
     /\ runner.pc = "done" => Len(runner.report) = Len(StageOrder)
     /\ \A k \in 1..Len(runner.calls) :
          \A j \in 1..(StageIndex(runner.calls[k]) - 1) : res[j].status = "success"
     /\ \A i \in 1..Len(res) :
          /\ res[i].status \in {"success", "failed"} <=> Contains(runner.calls, res[i].name)
          /\ res[i].status \in {"success", "failed", "skipped"}
     /\ \A i, j \in 1..Len(res) :
          (i < j /\ res[i].status # "success") => res[j].status = "skipped"
     /\ runner.pc # "escaped"

\* a run in which the transformation failed and both later stages were skipped
C1_Witness ==
  /\ runner.pc = "done"
  /\ runner.results[1].status = "success"
  /\ runner.results[2].status = "failed"
  /\ runner.results[3].status = "skipped"
  /\ runner.results[4].status = "skipped"
  /\ runner.calls = <<"data_cleaning", "data_transformation">>


\* handle_nulls has been called: it returned, or it raised
AfterHandleNulls ==
  \/ cleaner.pc = "remove_duplicates"
  \/ cleaner.pc = "failed" /\ cleaner.failed_in = "handle_nulls"

\* C3: after handle_nulls every input column whose null fraction is >= 0.40
\* is absent from the table, and every column whose null fraction is > 0 and
\* < 0.40 is present without nulls: numeric columns filled with the median,
\* all others with "unknown".
C3_NullHeavyDroppedOthersImputed ==
  AfterHandleNulls =>
    LET before == cleaner.raw_file.table
        after == cleaner.df[1]
        n == Height(before)
    IN \A c \in Range(before.columns) :
         LET k == NullCount(before, c)
         IN /\ (k > 0 /\ k * 100 >= 40 * n) => ~HasColumn(after, c)
            /\ (k > 0 /\ k * 100 < 40 * n) =>
                 /\ HasColumn(after, c)
                 /\ NullCount(after, c) = 0
                 /\ \A i \in 1..n :
                      IsNull(before.rows[i][c]) =>
                        after.rows[i][c] = IF before.dtypes[c] \in NUMERIC_DTYPES
                                             THEN <<Median(Column(before, c))>>
                                             ELSE <<"unknown">>

\* two rows of the raw table agree on every required column the table has
AgreeOnRequired(t, i, j) ==
  \A c \in Range(BOOKS_REQUIRED_COLUMNS) : HasColumn(t, c) => t.rows[i][c] = t.rows[j][c]

\* C4: the cleaned output never has more rows than the raw input, and has
\* strictly fewer when two input rows agree on every present required column.
C4_RowCountShrinks ==
  cleaner.pc = "done" =>
    LET before == cleaner.raw_file.table
        after == cleaner.cleaned_file[1]
    IN /\ Height(after) <= Height(before)
       /\ (\E i, j \in 1..Height(before) : i < j /\ AgreeOnRequired(before, i, j))
            => Height(after) < Height(before)

\* a cleaned file written from an input with a duplicated key and a distinct row
C4_Witness ==
  /\ cleaner.pc = "done"
  /\ Height(cleaner.raw_file.table) = 3
  /\ Height(cleaner.cleaned_file[1]) = 2
  /\ \E i, j \in 1..3 : i < j /\ AgreeOnRequired(cleaner.raw_file.table, i, j)
                              /\ cleaner.raw_file.table.rows[i] # cleaner.raw_file.table.rows[j]

\* the rows of t at the indices idx, in ascending index order
RECURSIVE RowsAt(_, _)
RowsAt(t, idx) ==
  IF idx = {} THEN <<>>
  ELSE LET m == CHOOSE x \in idx : \A y \in idx : x <= y
       IN <<t.rows[m]>> \o RowsAt(t, idx \ {m})

\* C5: remove_duplicates keeps exactly the first row of every group of rows
\* that agree on the present required columns, and the kept rows come out in
\* the relative order they had in the input.
C5_FirstKeptOrderPreserved ==
  [][(cleaner.pc = "remove_duplicates" /\ cleaner'.pc = "save_cleaned") =>
       cleaner'.df[1].rows =
         RowsAt(cleaner.df[1],
                {i \in 1..Height(cleaner.df[1]) :
                   \A j \in 1..(i - 1) : ~AgreeOnRequired(cleaner.df[1], j, i)})]_vars


\* C6: whenever add_unique_id generates the IDs of n rows with digit width D,
\* the n IDs are pairwise distinct and each lies in [10^(D-1), 10^D - 1].
C6_IdsDistinctInRange ==
  (~IsNull(transformer.id_report) /\ transformer.id_report[1].status = "generated") =>
    LET df == transformer.df[1]
        D == transformer.ID_DIGITS
    IN /\ Height(df) = Height(transformer.cleaned_file.table)
       /\ \A i \in 1..Height(df) :
            /\ ~IsNull(df.rows[i][ID_COLUMN_NAME])
            /\ Val(df.rows[i][ID_COLUMN_NAME]) >= 10 ^ (D - 1)
            /\ Val(df.rows[i][ID_COLUMN_NAME]) <= 10 ^ D - 1
       /\ \A i, j \in 1..Height(df) :
            i # j => df.rows[i][ID_COLUMN_NAME] # df.rows[j][ID_COLUMN_NAME]

\* two rows received two-digit IDs
C6_Witness ==
  /\ ~IsNull(transformer.id_report)
  /\ transformer.id_report[1].status = "generated"
  /\ transformer.ID_DIGITS = 2
  /\ Height(transformer.df[1]) = 2
  /\ Val(transformer.df[1].rows[1][ID_COLUMN_NAME]) = 99
  /\ Val(transformer.df[1].rows[2][ID_COLUMN_NAME]) = 10

\* the filtered records of an outlier report keep a row when, in every
\* filtered column, its value is null or lies within the recorded bounds
KeptByAll(row, recs) ==
  \A k \in 1..Len(recs) :
    recs[k].status = "filtered" =>
      \/ IsNull(row[recs[k].column])
      \/ /\ Val(recs[k].lower2) <= 2 * Val(row[recs[k].column])
         /\ 2 * Val(row[recs[k].column]) <= Val(recs[k].upper2)

Survivors(df, recs) == [df EXCEPT !.rows = SelectSeq(@, LAMBDA r : KeptByAll(r, recs))]

\* C2: in remove_outliers, every configured numeric column whose train IQR
\* is > 0 gets lower = Q1 - 1.5*IQR and upper = Q3 + 1.5*IQR from the
\* quartiles of the train partition (as the columns before it left it), and
\* a row of train and a row of test is kept if and only if its value in
\* every such column is null or within [lower, upper], bounds included; the
\* same bounds serve both partitions.
C2_OutlierBoundsFromTrainForBoth ==
  [][(fe.pc = "remove_outliers" /\ fe'.pc = "add_text_features") =>
       LET recs == fe'.outlier_report[1]
       IN /\ \A k \in 1..Len(recs) :
               recs[k].status = "filtered" =>
                 LET before == Survivors(fe.train_df[1], SubSeq(recs, 1, k - 1))
                     q1 == Val(Quantile(Column(before, recs[k].column), 25))
                     q3 == Val(Quantile(Column(before, recs[k].column), 75))
                 IN /\ q3 - q1 > 0
                    /\ Val(recs[k].lower2) = 2 * q1 - 3 * (q3 - q1)
                    /\ Val(recs[k].upper2) = 2 * q3 + 3 * (q3 - q1)
          /\ fe'.train_df[1] = Survivors(fe.train_df[1], recs)
          /\ fe'.test_df[1] = Survivors(fe.test_df[1], recs)]_vars

\* a test row with an outlying stock was removed while a test row whose
\* stock is exactly the lower bound was kept
C2_Witness ==
  /\ fe.pc = "add_text_features"
  /\ \E k \in 1..Len(fe.outlier_report[1]) :
       LET rec == fe.outlier_report[1][k]
       IN /\ rec.status = "filtered"
          /\ rec.column = STOCK_COLUMN_NAME
          /\ Val(rec.removed_test) >= 1
          /\ \E i \in 1..Height(fe.test_df[1]) :
               2 * Val(fe.test_df[1].rows[i][STOCK_COLUMN_NAME]) = Val(rec.lower2)

\* the smallest and the largest non-null price of a table with some
TrainMin(df) == SortedValues(Column(df, PRICE_COLUMN_NAME))[1]

TrainMax(df) == SortedValues(Column(df, PRICE_COLUMN_NAME))[Len(SortedValues(Column(df, PRICE_COLUMN_NAME)))]

\* C7: after scale_price on a train partition whose prices have nonzero
\* variance, every scaled train value (of a row that has a price) lies in
\* [0, 1], the rows holding the train minimum get exactly 0.0 and the rows
\* holding the train maximum exactly 1.0; a test row is scaled with the
\* train minimum and maximum: it gets 0.0 at the train minimum, 1.0 at the
\* train maximum, less than 0 below and more than 1 above them.
C7_ScaledTrainInUnitInterval ==
  (/\ fe.pc = "encode_categoricals"
   /\ fe.scaling_report[1].status = "scaled"
   /\ ~IsNull(fe.scaling_report[1].min)
   /\ Val(fe.scaling_report[1].min) < Val(fe.scaling_report[1].max))
  => LET train == fe.features_train[1]
         test == fe.features_test[1]
         lo == TrainMin(train)
         hi == TrainMax(train)
         scaled(row) == Val(row[PRICE_MINMAX_COLUMN])
         price(row) == Val(row[PRICE_COLUMN_NAME])
     IN /\ \A i \in 1..Height(train) :
             LET row == train.rows[i]
             IN ~IsNull(row[PRICE_COLUMN_NAME]) =>
                  /\ scaled(row) # FNaN
                  /\ ~FNegative(scaled(row))
                  /\ ~FGreaterThanOne(scaled(row))
                  /\ (price(row) = lo => scaled(row) = FZero)
                  /\ (price(row) = hi => scaled(row) = FOne)
        /\ \A i \in 1..Height(test) :
             LET row == test.rows[i]
             IN ~IsNull(row[PRICE_COLUMN_NAME]) =>
                  /\ (price(row) = lo => scaled(row) = FZero)
                  /\ (price(row) = hi => scaled(row) = FOne)
                  /\ (price(row) < lo => FNegative(scaled(row)))
                  /\ (price(row) > hi => FGreaterThanOne(scaled(row)))

\* the indicator columns of base column col that a table has, and those
\* among them that are 1.0 in a row
Indicators(df, col) ==
  {c \in Range(SortedStrings) : HasColumn(df, encoded_name(col, c))}

Hot(df, row, col) == {c \in Indicators(df, col) : row[encoded_name(col, c)] = <<1>>}

\* the categories a partition had in column col when encode_categoricals ran
Seen(df, col) == {c \in Range(SortedStrings) : <<c>> \in Range(Column(df, col))}

\* C8: for every column one-hot encoded by encode_categoricals, train and
\* test get one indicator column <col>__<category> for each category seen in
\* train and for no other; every train row has exactly one indicator equal
\* to 1 (its own category's), and a test row has exactly one indicator equal
\* to 1 if its category occurs in train and none otherwise.
C8_OneHotFitOnTrain ==
  (fe.pc = "create_extra_features" /\ fe.categorical_report[1].status = "encoded") =>
    LET train == fe.features_train[1]
        test == fe.features_test[1]
    IN \A k \in 1..Len(fe.categorical_report[1].columns) :
         LET col == fe.categorical_report[1].columns[k]
         IN /\ Indicators(train, col) = Seen(train, col)
            /\ Indicators(test, col) = Seen(train, col)
            /\ \A i \in 1..Height(train) :
                 Hot(train, train.rows[i], col) = {Val(train.rows[i][col])}
            /\ \A i \in 1..Height(test) :
                 Hot(test, test.rows[i], col) =
                   IF Val(test.rows[i][col]) \in Seen(train, col)
                     THEN {Val(test.rows[i][col])} ELSE {}

\* a test partition with one row of a category that train has and one row
\* of a category that train has not
C8_Witness ==
  /\ fe.pc = "create_extra_features"
  /\ fe.categorical_report[1].status = "encoded"
  /\ \E i, j \in 1..Height(fe.features_test[1]) :
       /\ Val(fe.features_test[1].rows[i][TEXT_CATEGORY_COLUMN]) \in Seen(fe.features_train[1], TEXT_CATEGORY_COLUMN)
       /\ Val(fe.features_test[1].rows[j][TEXT_CATEGORY_COLUMN]) \notin Seen(fe.features_train[1], TEXT_CATEGORY_COLUMN)
       /\ Hot(fe.features_test[1], fe.features_test[1].rows[j], TEXT_CATEGORY_COLUMN) = {}

\* the numeric columns of a table other than the target
NumericFeatures(df) ==
  {c \in Range(df.columns) : df.dtypes[c] \in SelectionNumericDtypes /\ c # FEATURE_SELECTION_TARGET}

\* C9: after feature_selection with a numeric target, the number of selected
\* features is <= FEATURE_SELECTION_K and <= the number of numeric non-target
\* columns train had.
C9_SelectedCountBounded ==
  [][(/\ fe.pc = "feature_selection"
      /\ fe'.pc = "save_features"
      /\ fe'.feature_selection_report[1].status = "selected") =>
       LET selected == fe'.feature_selection_report[1].selected
       IN /\ Len(selected) <= fe.FEATURE_SELECTION_K
          /\ Len(selected) <= Cardinality(NumericFeatures(fe.features_train[1]))
          /\ Cardinality(Range(selected)) = Len(selected)
          /\ Range(selected) \subseteq NumericFeatures(fe.features_train[1])]_vars

\* a selection that FEATURE_SELECTION_K cut short: fewer features selected
\* than train offers
C9_Witness ==
  /\ fe.pc = "save_features"
  /\ fe.feature_selection_report[1].status = "selected"
  /\ Len(fe.feature_selection_report[1].selected) = fe.FEATURE_SELECTION_K
  /\ HasColumn(fe.features_train[1], ID_COLUMN_NAME)
  /\ ~Contains(fe.feature_selection_report[1].selected, ID_COLUMN_NAME)

\* C10: after feature_selection succeeds with a numeric target, train and
\* test have exactly the same column list: the selected features, then the
\* target, then the id column if train had one (and it is not among the
\* selected features already); the target is always retained.
C10_TrainTestSameColumns ==
  [][(/\ fe.pc = "feature_selection"
      /\ fe'.pc = "save_features"
      /\ fe'.feature_selection_report[1].status = "selected") =>
       LET selected == fe'.feature_selection_report[1].selected
           expected == selected \o <<FEATURE_SELECTION_TARGET>> \o
                       (IF HasColumn(fe.features_train[1], ID_COLUMN_NAME)
                           /\ ~Contains(selected, ID_COLUMN_NAME)
                          THEN <<ID_COLUMN_NAME>> ELSE <<>>)
       IN /\ fe'.features_train[1].columns = expected
          /\ fe'.features_test[1].columns = expected]_vars

\* the rows of df at the positions in idx, in row order
RowsAtPositions(df, idx) ==
  LET pos == SelectSeq([i \in 1..Len(df.rows) |-> i], LAMBDA i : i \in idx)
  IN [k \in 1..Len(pos) |-> df.rows[pos[k]]]

\* ceil(total * 3 / 10) in exact arithmetic
CeilTestFraction(total) == (3 * total + 9) \div 10

\* largest dataset size for which the computed test size is compared with
\* the exact ceiling
SplitProbe == 40

TestSizeIsCeil == \A t \in 1..SplitProbe : test_size(t) = CeilTestFraction(t)

\* C11: initial_split on a dataset of total >= 1 rows puts exactly
\* ceil(total * 0.3) rows in test and the other total - ceil(total * 0.3)
\* rows in train; the two partitions are the rows at a set of row positions
\* and at its complement, so no position is in both and every one is in one.
C11_SplitSizesAndPartition ==
  [][(fe.pc = "initial_split" /\ fe'.pc = "remove_outliers") =>
       LET df == fe.df[1]
           total == Height(df)
       IN /\ total >= 1
          /\ TestSizeIsCeil
          /\ Height(fe'.test_df[1]) = CeilTestFraction(total)
          /\ Height(fe'.train_df[1]) = total - CeilTestFraction(total)
          /\ \E T \in SUBSET (1..total) :
               /\ fe'.test_df[1].rows = RowsAtPositions(df, T)
               /\ fe'.train_df[1].rows = RowsAtPositions(df, (1..total) \ T)
          /\ fe'.test_df[1].columns = df.columns
          /\ fe'.train_df[1].columns = df.columns]_vars

\* a split of five rows into two test rows and three train rows
C11_Witness ==
  /\ fe.pc = "remove_outliers"
  /\ fe.split_report[1].total_rows = 5
  /\ Height(fe.test_df[1]) = 2
  /\ Height(fe.train_df[1]) = 3

\* ---- parse_price / transform_price ----
Separators(s) == {i \in 1..Len(s) : s[i] \in {",", "."}}
DigitsOnly(s) == SelectSeq(s, LAMBDA c : c \in DigitChars)
LastSeparator(s) == CHOOSE p \in Separators(s) : \A q \in Separators(s) : q <= p

\* the number a price text denotes when the separator at position p is the
\* decimal separator and every other separator groups thousands
DecimalAt(s, p) ==
  Decimal(DigitsToNat(DigitsOnly(SubSeq(s, 1, p - 1)) \o DigitsOnly(SubSeq(s, p + 1, Len(s)))),
          Len(DigitsOnly(SubSeq(s, p + 1, Len(s)))))

\* a text with digits, a comma and a period, in which the symbol that comes
\* last occurs once
BothSeparators(s) ==
  /\ DigitsOnly(s) # <<>>
  /\ Contains(s, ",") /\ Contains(s, ".")
  /\ \A q \in Separators(s) \ {LastSeparator(s)} : s[q] # s[LastSeparator(s)]

\* a text with digits and at most one separator
OneSeparator(s) == DigitsOnly(s) # <<>> /\ Cardinality(Separators(s)) <= 1

PriceTransformed ==
  /\ transformer.pc = "save_processed"
  /\ HasColumn(transformer.cleaned_file.table, PRICE_COLUMN_NAME)

PriceIn(i) == transformer.cleaned_file.table.rows[i][PRICE_COLUMN_NAME]
PriceOut(i) == transformer.df[1].rows[i][PRICE_COLUMN_NAME]

\* C12: after transform_price, every price text that holds both a comma and
\* a period has been parsed with the later of the two symbols as the decimal
\* separator and the earlier one dropped as a thousands separator
\* ("1.234,56" and "1,234.56" both give 1234.56).
C12_LaterSymbolIsDecimal ==
  PriceTransformed =>
    \A i \in 1..Height(transformer.df[1]) :
      (~IsNull(PriceIn(i)) /\ BothSeparators(keep_price_chars(Val(PriceIn(i)))))
        => PriceOut(i) = <<DecimalAt(keep_price_chars(Val(PriceIn(i))),
                                     LastSeparator(keep_price_chars(Val(PriceIn(i)))))>>

\* C13: after transform_price the price column is a float column; a price
\* text with at most one separator is parsed from its digits alone, currency
\* symbols and whitespace dropped, a lone comma read as the decimal separator
\* ("R$ 10,99" gives 10.99 and "12.50" gives 12.5).
C13_CommaDecimalAndFloatColumn ==
  PriceTransformed =>
    /\ transformer.df[1].dtypes[PRICE_COLUMN_NAME] = "Float64"
    /\ \A i \in 1..Height(transformer.df[1]) :
         LET kept == IF IsNull(PriceIn(i)) THEN <<>> ELSE keep_price_chars(Val(PriceIn(i)))
         IN /\ OneSeparator(kept) =>
                 PriceOut(i) = <<DecimalAt(kept, IF Separators(kept) = {} THEN Len(kept) + 1
                                                 ELSE LastSeparator(kept))>>
            /\ PriceIn(i) = <<Text_R_10_99>> => PriceOut(i) = <<[num |-> 1099, scale |-> 2]>>
            /\ PriceIn(i) = <<Text_12_50>> => PriceOut(i) = <<[num |-> 125, scale |-> 1]>>

C13_Witness ==
  /\ PriceTransformed
  /\ Column(transformer.cleaned_file.table, PRICE_COLUMN_NAME) = <<<<Text_R_10_99>>, <<Text_12_50>>>>
  /\ Column(transformer.df[1], PRICE_COLUMN_NAME)
       = <<<<[num |-> 1099, scale |-> 2]>>, <<[num |-> 125, scale |-> 1]>>>>
  /\ transformer.price_report[1].converted_values = 2

\* ---- the test table: [10,11,12,13,14,1000] ----
PricesOf(df) == {Val(c) : c \in {x \in Range(Column(df, PRICE_COLUMN_NAME)) : ~IsNull(x)}}

\* C14: for the price series [10,11,12,13,14,1000] (factor 1.5, test
\* fraction 0.3), whichever two rows the split puts in test, the train
\* partition holds no price of 1000 or more once remove_outliers has run,
\* and neither does the train feature table that run writes.
C14_FixtureTrainBelow1000 ==
  /\ (~IsNull(fe.outlier_report) /\ ~IsNull(fe.train_df)) =>
       \A p \in PricesOf(fe.train_df[1]) : p < 1000
  /\ (~IsNull(fe.saved) /\ ~IsNull(fe.saved[1].train)) =>
       /\ HasColumn(fe.saved[1].train[1], PRICE_COLUMN_NAME)
       /\ \A p \in PricesOf(fe.saved[1].train[1]) : p < 1000

C14_Witness ==
  /\ fe.pc = "done"
  /\ \E i \in 1..Height(fe.df[1]) :
       /\ (i - 1) \notin test_indices(Height(fe.df[1]))
       /\ fe.df[1].rows[i][PRICE_COLUMN_NAME] = <<1000>>
  /\ fe.outlier_report[1][1].removed_train = <<1>>
  /\ PricesOf(fe.saved[1].train[1]) # {}

\* C15: a run of the cleaner on an absent raw file fails with
\* FileNotFoundError, a run on a raw file of zero rows fails as well (it
\* never completes), and in both cases no cleaned table is written.
C15_AbsentOrEmptyRawFails ==
  /\ (~cleaner.raw_file.exists /\ cleaner.pc # "read_raw") =>
       /\ cleaner.pc = "failed" /\ cleaner.error = "FileNotFoundError"
       /\ IsNull(cleaner.cleaned_file)
  /\ (cleaner.raw_file.exists /\ Height(cleaner.raw_file.table) = 0) =>
       /\ cleaner.pc # "done"
       /\ IsNull(cleaner.cleaned_file)

\* C16: generate_unique_ids(count, digits) raises exactly when count is
\* larger than 9 * 10^(digits-1); asked for exactly that many ids it returns
\* every integer of that many digits once.
C16_RaisesIffOverCapacity ==
  transformer.pc \in {"returned", "raised"} =>
    LET exact == 9 * 10 ^ (transformer.digits - 1)
    IN /\ (transformer.pc = "raised") <=> (transformer.count > exact)
       /\ (transformer.pc = "returned") =>
            /\ Len(transformer.ids[1]) = transformer.count
            /\ Injective(transformer.ids[1])
            /\ \A k \in 1..transformer.count :
                 /\ transformer.ids[1][k] >= 10 ^ (transformer.digits - 1)
                 /\ transformer.ids[1][k] < 10 ^ transformer.digits
            /\ transformer.count = exact =>
                 Range(transformer.ids[1]) = (10 ^ (transformer.digits - 1))..(10 ^ transformer.digits - 1)

C16_Witness ==
  /\ transformer.pc = "returned"
  /\ transformer.digits = 1
  /\ transformer.count = 9
  /\ transformer.ids[1][1] = 9 /\ transformer.ids[1][9] = 1

\* ---- stages whose required column is missing or not numeric ----
Unmet(df, col) == ~HasColumn(df, col) \/ df.dtypes[col] \notin NUMERIC_DTYPES

C18_TargetUnmetIsNoOp ==
  [][(/\ fe.pc = "feature_selection"
      /\ ~IsNull(fe.features_train)
      /\ \/ ~HasColumn(fe.features_train[1], FEATURE_SELECTION_TARGET)
         \/ fe.features_train[1].dtypes[FEATURE_SELECTION_TARGET]
              \notin {"Int64", "Int32", "Float64", "Float32"})
     => /\ fe'.pc = "save_features"
        /\ fe'.feature_selection_report[1].status = "target_not_numeric_or_missing"
        /\ fe'.features_train = fe.features_train
        /\ fe'.features_test = fe.features_test]_vars

C18_Witness ==
  /\ fe.pc = "save_features"
  /\ fe.feature_selection_report[1].status = "target_not_numeric_or_missing"
  /\ HasColumn(fe.features_train[1], FEATURE_SELECTION_TARGET)
  /\ fe.features_train[1].dtypes[FEATURE_SELECTION_TARGET] = "Utf8"
  /\ Height(fe.features_train[1]) = 2 /\ Height(fe.features_test[1]) = 1

\* ---- remove_outliers, column by column ----
\* the table left by the filters of the first k records of the report
RECURSIVE AfterColumns(_, _, _)
AfterColumns(df, recs, k) ==
  IF k = 0 THEN df
  ELSE LET d == AfterColumns(df, recs, k - 1)
           col == recs[k].column
       IN IF recs[k].status = "filtered" /\ HasColumn(d, col)
            THEN [d EXCEPT !.rows = SelectSeq(@, LAMBDA r :
                    \/ IsNull(r[col])
                    \/ /\ 2 * Val(r[col]) >= Val(recs[k].lower2)
                       /\ 2 * Val(r[col]) <= Val(recs[k].upper2))]
            ELSE d

\* why a column is to be skipped, or None
SkipStatus(train, col) ==
  IF ~HasColumn(train, col) THEN "missing"
  ELSE IF train.dtypes[col] \notin NUMERIC_DTYPES THEN "non_numeric"
  ELSE IF /\ NonNull(Column(train, col)) # <<>>
          /\ Quantile(Column(train, col), 25) = Quantile(Column(train, col), 75) THEN "zero_iqr"
  ELSE None

\* C19: in remove_outliers a configured column that is missing from train,
\* is not numeric, or has a zero interquartile range in train gets a record
\* with that status, and no row of train or test is removed for it: the
\* partitions that come out are those left by the filtered columns alone.
C19_SkippedColumnsRemoveNothing ==
  [][(fe.pc = "remove_outliers" /\ fe'.pc = "add_text_features") =>
       LET recs == fe'.outlier_report[1]
       IN /\ Len(recs) = Len(OUTLIER_COLUMNS)
          /\ \A k \in 1..Len(recs) :
               LET before == AfterColumns(fe.train_df[1], recs, k - 1)
               IN /\ recs[k].column = OUTLIER_COLUMNS[k]
                  /\ SkipStatus(before, OUTLIER_COLUMNS[k]) # None =>
                       recs[k].status = SkipStatus(before, OUTLIER_COLUMNS[k])
          /\ fe'.train_df[1] = AfterColumns(fe.train_df[1], recs, Len(recs))
          /\ fe'.test_df[1] = AfterColumns(fe.test_df[1], recs, Len(recs))]_vars

C19_Witness ==
  /\ fe.pc = "add_text_features"
  /\ fe.outlier_report[1][1].status = "zero_iqr"
  /\ fe.outlier_report[1][2].status = "missing"
  /\ fe.outlier_report[1][1].q1 = <<12>>
  /\ Column(fe.train_df[1], PRICE_COLUMN_NAME) = <<<<12>>, <<12>>, <<12>>>>
  /\ Column(fe.test_df[1], PRICE_COLUMN_NAME) = <<<<7>>, <<7>>>>

\* ---- price buckets ----
PRICE_BUCKET_COLUMN == "price_bucket"

\* the bucket of a price for the cut points q (Q20, Q40, Q60, Q80)
Bucket(price, q) ==
  IF price <= q[1] THEN 0
  ELSE IF price <= q[2] THEN 1
  ELSE IF price <= q[3] THEN 2
  ELSE IF price <= q[4] THEN 3
  ELSE 4

TrainQuintiles(train) ==
  [k \in 1..4 |-> Val(Quantile(Column(train, PRICE_COLUMN_NAME), 20 * k))]

Bucketed(df, q) ==
  /\ HasColumn(df, PRICE_BUCKET_COLUMN)
  /\ \A i \in 1..Height(df) :
       ~IsNull(df.rows[i][PRICE_COLUMN_NAME]) =>
         df.rows[i][PRICE_BUCKET_COLUMN] = <<Bucket(Val(df.rows[i][PRICE_COLUMN_NAME]), q)>>

\* C20: once create_extra_features has run on a train table with a numeric,
\* non-empty price column, every train row and every test row carries the
\* price bucket given by the train quintiles: 0 up to Q20, 1 up to Q40,
\* 2 up to Q60, 3 up to Q80, 4 above.
C20_PriceBucketByTrainQuintiles ==
  (/\ fe.pc = "feature_selection"
   /\ ~IsNull(fe.features_train)
   /\ HasColumn(fe.features_train[1], PRICE_COLUMN_NAME)
   /\ fe.features_train[1].dtypes[PRICE_COLUMN_NAME] \in NUMERIC_DTYPES
   /\ NonNull(Column(fe.features_train[1], PRICE_COLUMN_NAME)) # <<>>)
  => /\ Bucketed(fe.features_train[1], TrainQuintiles(fe.features_train[1]))
     /\ HasColumn(fe.features_test[1], PRICE_COLUMN_NAME) =>
          Bucketed(fe.features_test[1], TrainQuintiles(fe.features_train[1]))

\* ---- normalize_text ----
AlnumOrUnderscore == LowerChars \cup DigitChars \cup {"_"}

\* the maximal runs of [a-z0-9] of a text, joined by single underscores
RECURSIVE JoinedRuns(_, _)
JoinedRuns(s, out) ==
  IF s = <<>> THEN out
  ELSE IF Head(s) \in LowerChars \cup DigitChars THEN JoinedRuns(Tail(s), Append(out, Head(s)))
  ELSE IF out # <<>> /\ out[Len(out)] # "_" /\ \E i \in 1..Len(s) : s[i] \in LowerChars \cup DigitChars
    THEN JoinedRuns(Tail(s), Append(out, "_"))
  ELSE JoinedRuns(Tail(s), out)

WellFormedText(t) ==
  /\ \A i \in 1..Len(t) : t[i] \in AlnumOrUnderscore
  /\ \A i \in 1..(Len(t) - 1) : ~(t[i] = "_" /\ t[i + 1] = "_")
  /\ t # <<>> => (t[1] # "_" /\ t[Len(t)] # "_")

TextNormalized == transformer.pc = "transform_price"

\* C21: after normalize_text_columns every non-null cell of a configured
\* text column is the lowercased input with each maximal run of characters
\* outside [a-z0-9] replaced by one underscore and the underscores at both
\* ends removed: only [a-z0-9_], no two underscores in a row, none at either
\* end, and normalizing it again leaves it unchanged.
C21_NormalizeTextShape ==
  TextNormalized =>
    \A k \in 1..Len(TEXT_NORMALIZE_COLUMNS) :
      LET col == TEXT_NORMALIZE_COLUMNS[k]
      IN HasColumn(transformer.df[1], col) =>
           \A i \in 1..Height(transformer.df[1]) :
             LET in == transformer.cleaned_file.table.rows[i][col]
                 out == transformer.df[1].rows[i][col]
             IN IF IsNull(in) THEN IsNull(out)
                ELSE /\ ~IsNull(out)
                     /\ WellFormedText(Val(out))
                     /\ Val(out) = JoinedRuns(str_lower(Val(in)), <<>>)
                     /\ normalize_text(Val(out)) = Val(out)

C21_Witness ==
  /\ TextNormalized
  /\ Column(transformer.cleaned_file.table, "title") = <<<<<<" ", "B", "+", "_">>>>>>
  /\ Column(transformer.df[1], "title") = <<<<<<"b">>>>>>
(***************************************************************************)
(* Claims on ExploratoryDataAnalysis.correlations                          *)
(***************************************************************************)
EdaDone == eda.pc = "done"

\* the rows of the report that carry a correlation (not a status)
PairRows == SelectSeq(eda.rows, LAMBDA row : "status" \notin DOMAIN row)

\* the two columns and the correlation cell of a report row
PairOf(row) ==
  IF "feature" \in DOMAIN row
    THEN [a |-> row.feature, b |-> FEATURE_SELECTION_TARGET, corr |-> row.correlation_with_target]
    ELSE [a |-> row.feature_a, b |-> row.feature_b, corr |-> row.pearson_corr]

\* the rows where both columns hold a value
JointRows(df, a, b) ==
  {i \in 1..Height(df) : ~IsNull(df.rows[i][a]) /\ ~IsNull(df.rows[i][b])}

ConstantOver(df, col, rows) == \A i, j \in rows : df.rows[i][col] = df.rows[j][col]

\* C22: every reported column pair with fewer than two rows where both
\* values are non-null has a null correlation, and every pair with two or
\* more such rows in which one of the two columns is constant over those
\* rows has the correlation 0.0
C22_NullOrZeroCorrelation ==
  EdaDone =>
    \A k \in 1..Len(PairRows) :
      LET p == PairOf(PairRows[k])
          joint == JointRows(eda.features, p.a, p.b)
      IN /\ Cardinality(joint) < 2 => p.corr = Null
         /\ ( /\ Cardinality(joint) >= 2
              /\ \/ ConstantOver(eda.features, p.a, joint)
                 \/ ConstantOver(eda.features, p.b, joint) )
              => p.corr = <<"0.0">>

TargetIsNumeric(df) ==
  /\ HasColumn(df, FEATURE_SELECTION_TARGET)
  /\ df.dtypes[FEATURE_SELECTION_TARGET] \in NUMERIC_DTYPES

\* one correlation of each numeric column other than the target, against
\* the target
ReportsTargetCorrelations ==
  LET other == SelectSeq(NumericColumns(eda.features), LAMBDA c : c # FEATURE_SELECTION_TARGET)
  IN /\ eda.error = None
     /\ Len(PairRows) = Len(other)
     /\ \A k \in 1..Len(other) :
          "feature" \in DOMAIN PairRows[k] /\ PairRows[k].feature = other[k]

\* one correlation of each pair of numeric columns
ReportsPairwiseCorrelations ==
  LET numeric == NumericColumns(eda.features)
      pairs == PairsFrom(Len(numeric), 1, 2)
  IN /\ eda.error = None
     /\ Len(PairRows) = Len(pairs)
     /\ \A k \in 1..Len(pairs) :
          /\ "feature_a" \in DOMAIN PairRows[k]
          /\ PairRows[k].feature_a = numeric[pairs[k][1]]
          /\ PairRows[k].feature_b = numeric[pairs[k][2]]

\* C23: correlations reports one correlation of each other numeric column
\* against the target exactly when the target column exists and is numeric;
\* in every other case (target absent, or present but not numeric) it
\* reports the correlations of all pairs of numeric columns
C23_TargetReportIffNumericTarget ==
  EdaDone =>
    IF TargetIsNumeric(eda.features) THEN ReportsTargetCorrelations
    ELSE ReportsPairwiseCorrelations
(***************************************************************************)
(* Claims on the authentication API                                        *)
(***************************************************************************)
\* the step is a request to the route
RequestTo(route) == api'.requests = api.requests + 1 /\ api'.request.route = route

\* issued[i] is the latest login of its user
LatestLogin(issued, i) ==
  /\ issued[i].route = "/auth/login"
  /\ \A j \in (i + 1)..Len(issued) :
       issued[j].route = "/auth/login"
         => issued[j].accessToken.payload.userId # issued[i].accessToken.payload.userId

\* C24: after a successful login, a refresh with the refresh token of that
\* login, one second or more later, returns 200 with the same refresh token
\* and an access token other than the login's, and every stored record of
\* the user then holds the new access token
C24_RefreshRenewsAccessToken ==
  [][RequestTo("/auth/refresh") =>
       \A i \in 1..Len(api.issued) :
         ( /\ LatestLogin(api.issued, i)
           /\ api.issued[i].refreshToken = api'.request.token
           /\ api.issued[i].at < api.now )
         => /\ api'.response.status_code = 200
            /\ api'.response.body.refreshToken = api.issued[i].refreshToken
            /\ api'.response.body.accessToken # api.issued[i].accessToken
            /\ \E k \in 1..Len(api'.TOKENS) :
                 api'.TOKENS[k].user_id = api.issued[i].accessToken.payload.userId
            /\ \A k \in 1..Len(api'.TOKENS) :
                 api'.TOKENS[k].user_id = api.issued[i].accessToken.payload.userId
                   => api'.TOKENS[k].access_token = api'.response.body.accessToken]_vars

\* a login of user smoke, a wait, and a refresh with the login's token
C24_Witness ==
  /\ api.pc = "serving"
  /\ api.request.route = "/auth/refresh"
  /\ api.response.status_code = 200
  /\ Len(api.issued) = 2
  /\ api.issued[1].route = "/auth/login"
  /\ api.issued[1].accessToken.payload.username = "smoke"
  /\ api.issued[1].refreshToken = api.request.token
  /\ api.issued[1].at < api.now
  /\ api.response.body.accessToken # api.issued[1].accessToken

MatchesNoUser(username, password) ==
  \A k \in 1..Len(UserTable) :
    UserTable[k].username # username \/ UserTable[k].password # password

\* a validly signed access token of a user who is not an administrator
NonAdminAccessToken(token) ==
  /\ token.signature = SECRET_KEY
  /\ "role" \in DOMAIN token.payload
  /\ token.payload.role # "admin"

\* C25: a login whose username and password match no user is refused with
\* 403 and stores no token record; GET /admin with a validly signed access
\* token whose role is not admin is refused with 401, and the same token is
\* accepted on /api/private
C25_AccessControl ==
  [][/\ ( RequestTo("/auth/login")
          /\ MatchesNoUser(api'.request.username, api'.request.password) )
        => api'.response.status_code = 403 /\ api'.TOKENS = api.TOKENS
     /\ ( RequestTo("/admin") /\ NonAdminAccessToken(api'.request.token) )
        => api'.response.status_code = 401
     /\ ( RequestTo("/api/private") /\ NonAdminAccessToken(api'.request.token) )
        => api'.response.status_code = 200]_vars

\* the access token of user smoke (role test) refused on /admin
C25_Witness ==
  /\ api.pc = "serving"
  /\ api.request.route = "/admin"
  /\ api.request.token.signature = SECRET_KEY
  /\ "role" \in DOMAIN api.request.token.payload
  /\ api.request.token.payload.role = "test"
  /\ api.response.status_code = 401

\* the refresh tokens handed out so far
IssuedRefreshTokens == {api.issued[i].refreshToken : i \in 1..Len(api.issued)}

\* C29: with either repository, after any sequence of logins and refreshes
\* there is at most one token record per user, and a refresh token is
\* accepted by get_token_record_by_refresh_token exactly when it was issued
\* at the latest login of its user
C29_OneRecordPerUser ==
  api.pc = "serving" =>
    /\ \A j, k \in 1..Len(api.TOKENS) :
         api.TOKENS[j].user_id = api.TOKENS[k].user_id => j = k
    /\ \A token \in IssuedRefreshTokens \cup {ForgedToken} :
         ~IsNull(get_token_record_by_refresh_token(api.TOKENS, token))
           <=> \E i \in 1..Len(api.issued) :
                 LatestLogin(api.issued, i) /\ api.issued[i].refreshToken = token

\* C30: an access token presented to a protected route after its expires
\* time is rejected, and a refresh token presented to /auth/refresh after
\* its expires time is rejected
C30_TokensExpire ==
  [][/\ ( (RequestTo("/api/private") \/ RequestTo("/admin"))
          /\ api'.request.token.payload.expires < api.now )
        => api'.response.status_code # 200
     /\ ( RequestTo("/auth/refresh") /\ api'.request.token.payload.expires < api.now )
        => api'.response.status_code # 200]_vars
(***************************************************************************)
(* Claims on fetch_image_as_base64                                         *)
(***************************************************************************)
IsResponse(outcome) == "content" \in DOMAIN outcome

Retried(outcome) ==
  ~IsResponse(outcome) /\ outcome.exception # "HTTPError"

\* the sleeps of a call that made n attempts: one after every attempt but
\* the last one allowed
ExpectedSleeps(n, max_attempts) ==
  [i \in 1..(IF n < max_attempts THEN n ELSE max_attempts - 1) |-> Pow2(i - 1)]

\* what holds of a call at every moment: no request error is raised, no
\* more than max_attempts GETs are made, a response or an HTTP error ends
\* the attempts, and every earlier failure was followed by its sleep
FetchSafe ==
  LET n == Len(scraper.outcomes)
  IN /\ scraper.pc # "raised"
     /\ n <= scraper.max_attempts
     /\ \A i \in 1..(n - 1) : Retried(scraper.outcomes[i])
     /\ scraper.pc = "returned" =>
          /\ (n > 0 /\ IsResponse(scraper.outcomes[n]) /\ scraper.outcomes[n].content # <<>>)
               => scraper.result = <<b64encode(scraper.outcomes[n].content)>>
          /\ (n = 0 \/ ~IsResponse(scraper.outcomes[n])) => scraper.result = <<"">>
          /\ (n > 0 /\ ~Retried(scraper.outcomes[n]))
               => scraper.sleeps = ExpectedSleeps(n - 1, scraper.max_attempts)
          /\ (n > 0 /\ Retried(scraper.outcomes[n]))
               => n = scraper.max_attempts
                  /\ scraper.sleeps = ExpectedSleeps(n, scraper.max_attempts)

\* C26: fetch_image_as_base64 returns after at most max_attempts GETs and
\* raises no request error: the base64 text of the first non-empty
\* response, no retry after an HTTP error status, a sleep of
\* 0.5 * 2^(attempt - 1) seconds after every other failed attempt but the
\* last, and "" when every attempt failed
C26_FetchTerminates ==
  /\ [](scraper.pc # "idle" => FetchSafe)
  /\ <>(scraper.pc = "returned")

\* two timeouts, slept 0.5 s and 1 s, then the body "Man" as "TWFu"
C26_Witness ==
  /\ scraper.pc = "returned"
  /\ scraper.max_attempts = 3
  /\ Len(scraper.outcomes) = 3
  /\ scraper.outcomes[1] = [exception |-> "ReadTimeout"]
  /\ scraper.outcomes[2] = [exception |-> "ConnectionError"]
  /\ scraper.sleeps = <<1, 2>>
  /\ scraper.outcomes[3] = [content |-> <<77, 97, 110>>]
  /\ scraper.result = <<<<"T", "W", "F", "u">>>>
(***************************************************************************)
(* Claims on the order of the FeatureEngineer stages                       *)
(***************************************************************************)
\* the step runs the stage (it is not the caller choosing one)
StageStep(stage) == fe.pc = stage /\ ~CallAnyStage

StageTables(f) == <<f.train_df, f.test_df, f.features_train, f.features_test>>

\* the stage raises and leaves the four tables as they were
RaisesUnchanged(stage) ==
  /\ fe'.pc = "failed"
  /\ fe'.failed_in = stage
  /\ StageTables(fe') = StageTables(fe)

\* C27: initial_split raises until read_processed has loaded a table with
\* rows; remove_outliers, add_text_features and scale_price raise until
\* initial_split has run; encode_categoricals, create_extra_features,
\* feature_selection and save_features raise until scale_price has run; a
\* stage raising for that reason leaves train, test and the feature tables
\* unchanged
C27_StageOrderEnforced ==
  [][/\ ( StageStep("initial_split") /\ (IsNull(fe.df) \/ Height(fe.df[1]) = 0) )
        => RaisesUnchanged("initial_split")
     /\ \A stage \in {"remove_outliers", "add_text_features", "scale_price"} :
          ( StageStep(stage) /\ IsNull(fe.split_report) ) => RaisesUnchanged(stage)
     /\ \A stage \in {"encode_categoricals", "create_extra_features", "feature_selection",
                      "save_features"} :
          ( StageStep(stage) /\ IsNull(fe.scaling_report) ) => RaisesUnchanged(stage)]_vars

\* scale_price called after read_processed, before any split, has raised;
\* also initial_split has raised on a loaded table without rows
C27_Witness ==
  /\ fe.pc = "failed"
  /\ "calls" \in DOMAIN fe
  /\ \/ /\ fe.failed_in = "scale_price"
        /\ ~IsNull(fe.df)
        /\ Height(fe.df[1]) > 0
        /\ IsNull(fe.split_report)
        /\ IsNull(fe.train_df)
     \/ /\ fe.failed_in = "encode_categoricals"
        /\ ~IsNull(fe.split_report)
        /\ IsNull(fe.scaling_report)
\* C28: after each stage from scale_price to create_extra_features the
\* train and test feature tables have the same column list, also when the
\* outlier filter has removed every test row, so that save_features can
\* concatenate them
C28_FeatureTablesSameColumns ==
  ( /\ fe.pc \in {"encode_categoricals", "create_extra_features", "feature_selection"}
    /\ ~IsNull(fe.features_train)
    /\ ~IsNull(fe.features_test) )
  => fe.features_train[1].columns = fe.features_test[1].columns

====
